---- MODULE Spec2Model ----
(***************************************************************************)
(* Stat aggregation, progression, battle resolution, reward settlement,    *)
(* the dungeon run handlers and the pet handlers of                        *)
(* src/demon_baton_bot_full_fixed.py.                                      *)
(*                                                                         *)
(* The variables are the rows of the database as the handlers leave them:  *)
(* every handler opens its own Session(), so what a handler changes on its *)
(* objects reaches the next handler only if the handler gets to a          *)
(* session.commit(); a handler that returns or raises before one leaves    *)
(* the rows as they were.  current_progress is a plain JSON column: an     *)
(* assignment to it is saved by a commit, a change made inside the stored  *)
(* dict is saved or not, and both outcomes are kept.  The scope in which a *)
(* def or class statement sits is not modelled: every function is callable *)
(* under its name; the statements inside a function are modelled as they   *)
(* are written and indented.                                               *)
(*                                                                         *)
(* Float-valued stats (defense, critical_chance, dodge_chance) are kept in *)
(* tenths, so vitality * 1.5 is vitality * 15.  Timestamps are in seconds. *)
(***************************************************************************)
EXTENDS Integers, Sequences, FiniteSets, TLC

VARIABLES now, player, inventory, fsm, monster_id, progress, last, lost, call,
          player_pets, keyboards

vars == <<now, player, inventory, fsm, monster_id, progress, last, lost, call,
         player_pets, keyboards>>

\* ---------------------------------------------------------------- bounds
\* the clock stops here
MaxTime == 3600

\* no new battle is offered from this experience on
MaxExperience == 100

\* the seconds the clock moves by between two requests
TickSteps == {1800}

\* the completions of one (player, dungeon) pair that are followed
MaxRuns == 3

\* the values of random.random() a replayed battle is given
TapeLen == 3

\* the calls of add_experience that are followed
MaxGrants == 3

\* the kills whose settlement is followed
MaxKills == 3

\* the player_pets rows of the player
MaxPets == 2

\* the monsters random.choice of line 640 picks for a player with pets
PetFoes == {"rat"}

\* the messages with a starter keyboard that are followed
MaxMessages == 2

\* the batons of the player whose care of a companion is followed
CarePurse == 30

\* the quantity of an item a crafting player starts with, at most
MaxStock == 2

\* the attacks between two players of the arena that are followed
MaxBouts == 3

\* values of random.random(), in thousandths: below every chance of a new
\* player, between its dodge and its critical chance, and above both
DrawValues == {0, 40, 999}

\* the elapsed times of a completion, in tenths of a second
ElapsedDraws == {0, 5, 10, 15, 25}

\* ------------------------------------------------------ program constants
MaxRounds == 20

BattleEnergyCost == 10

FleeEnergyLoss == 5

None == -1

Max(a, b) == IF a >= b THEN a ELSE b

\* ------------------------------------------------------- database content
\* rows of the items table: only the columns get_total_stats reads
Items ==
  [potion |-> [strength_bonus |-> 0, agility_bonus |-> 0, intelligence_bonus |-> 0,
               vitality_bonus |-> 0, health_bonus |-> 0, energy_bonus |-> 0,
               damage_bonus |-> 0, defense_bonus |-> 0],
   shield |-> [strength_bonus |-> 0, agility_bonus |-> 1, intelligence_bonus |-> 2,
               vitality_bonus |-> 3, health_bonus |-> 10, energy_bonus |-> 5,
               damage_bonus |-> 0, defense_bonus |-> 4],
   sword  |-> [strength_bonus |-> 3, agility_bonus |-> 0, intelligence_bonus |-> 0,
               vitality_bonus |-> 0, health_bonus |-> 0, energy_bonus |-> 0,
               damage_bonus |-> 5, defense_bonus |-> 0]]

\* rows of the monsters table; drop_table maps item id to chance, in hundredths
Monsters ==
  [ogre   |-> [health |-> 40, damage |-> 107, defense |-> 0, experience_reward |-> 60,
               baton_reward_min |-> 7, baton_reward_max |-> 7,
               drop_table |-> [potion |-> 0], required_level |-> 1],
   rat    |-> [health |-> 30, damage |-> 10, defense |-> 0, experience_reward |-> 40,
               baton_reward_min |-> 5, baton_reward_max |-> 5,
               drop_table |-> [potion |-> 50], required_level |-> 1],
   reaper |-> [health |-> 1000, damage |-> 207, defense |-> 0, experience_reward |-> 50,
               baton_reward_min |-> 9, baton_reward_max |-> 10,
               drop_table |-> [potion |-> 0], required_level |-> 1]]

MonsterIds == DOMAIN Monsters

\* rows of the dungeons table; a room is a sequence of <<monster_id, count>>
\* (the items of the JSON object in order); boss_id "" is NULL; completion_time
\* in minutes, cooldown in hours
Dungeons ==
  [crypt |-> [min_level |-> 1, monster_groups |-> << << <<"rat", 2>> >> >>,
              boss_id |-> "", completion_time |-> 30, energy_cost |-> 30, cooldown |-> 1],
   keep  |-> [min_level |-> 1, monster_groups |-> << << <<"rat", 1>> >> >>,
              boss_id |-> "ogre", completion_time |-> 30, energy_cost |-> 40, cooldown |-> 1],
   maze  |-> [min_level |-> 1,
              monster_groups |-> << << <<"rat", 1>>, <<"reaper", 1>> >>, << <<"rat", 1>> >> >>,
              boss_id |-> "", completion_time |-> 30, energy_cost |-> 30, cooldown |-> 1]]

DungeonIds == DOMAIN Dungeons

\* the columns of class Dungeon
DungeonColumns ==
  {"id", "name", "description", "min_level", "max_players", "monster_groups",
   "boss_id", "rewards", "completion_time", "energy_cost", "cooldown"}

\* dungeon ids a callback can carry: the rows and one id without a row
RequestIds == DungeonIds \cup {"nowhere"}

\* what follows "dungeon_" in the callback data of the buttons of lines 739-747
\* and 818: a dungeon id, or the word of the button that leaves the dungeon
SelectionData == RequestIds \cup {"leave"}

\* ------------------------------------------------------------ Player
\* Column defaults of class Player
NewPlayer ==
  [level |-> 1, experience |-> 0, batons |-> 100,
   strength |-> 10, agility |-> 10, intelligence |-> 10, vitality |-> 10,
   energy |-> 100, max_energy |-> 100, health |-> 100, max_health |-> 100,
   crafting_level |-> 1, crafting_experience |-> 0,
   pvp_rating |-> 1000, wins |-> 0, losses |-> 0,
   last_energy_regen |-> 0,
   equipment |-> << >>, buffs |-> << >>]

RECURSIVE SumBonus(_, _)
\* the bonus column `col` summed over the equipped item ids that have a row
SumBonus(equipment, col) ==
  IF equipment = << >> THEN 0
  ELSE (IF Head(equipment) \in DOMAIN Items THEN Items[Head(equipment)][col] ELSE 0)
       + SumBonus(Tail(equipment), col)

RECURSIVE SumBuffsInclusive(_, _, _)
\* a sum in which a buff still counts at the time it expires
SumBuffsInclusive(buffs, stat, t) ==
  IF buffs = << >> THEN 0
  ELSE (IF Head(buffs).expires_at >= t /\ stat \in DOMAIN Head(buffs).stat_bonuses
        THEN Head(buffs).stat_bonuses[stat] ELSE 0)
       + SumBuffsInclusive(Tail(buffs), stat, t)

RECURSIVE SumBuffs(_, _, _)
\* the bonus for `stat` summed over the buffs with expires_at > t
SumBuffs(buffs, stat, t) ==
  IF buffs = << >> THEN 0
  ELSE (IF Head(buffs).expires_at > t /\ stat \in DOMAIN Head(buffs).stat_bonuses
        THEN Head(buffs).stat_bonuses[stat] ELSE 0)
       + SumBuffs(Tail(buffs), stat, t)

\* an aggregation that derives damage, defense and the two chances from the
\* attributes after the equipment is added
get_total_stats_derived_last(p, t) ==
  LET strength == p.strength + SumBonus(p.equipment, "strength_bonus")
      agility  == p.agility + SumBonus(p.equipment, "agility_bonus")
      vitality == p.vitality + SumBonus(p.equipment, "vitality_bonus")
  IN [strength        |-> strength + SumBuffs(p.buffs, "strength", t),
      agility         |-> agility + SumBuffs(p.buffs, "agility", t),
      intelligence    |-> p.intelligence + SumBonus(p.equipment, "intelligence_bonus")
                          + SumBuffs(p.buffs, "intelligence", t),
      vitality        |-> vitality + SumBuffs(p.buffs, "vitality", t),
      health          |-> p.max_health + SumBonus(p.equipment, "health_bonus")
                          + SumBuffs(p.buffs, "health", t),
      energy          |-> p.max_energy + SumBonus(p.equipment, "energy_bonus")
                          + SumBuffs(p.buffs, "energy", t),
      damage          |-> strength * 2 + SumBonus(p.equipment, "damage_bonus")
                          + SumBuffs(p.buffs, "damage", t),
      defense         |-> vitality * 15 + 10 * SumBonus(p.equipment, "defense_bonus")
                          + 10 * SumBuffs(p.buffs, "defense", t),
      critical_chance |-> agility * 5 + 10 * SumBuffs(p.buffs, "critical_chance", t),
      dodge_chance    |-> agility * 3 + 10 * SumBuffs(p.buffs, "dodge_chance", t)]

\* Player.get_total_stats; defense, critical_chance and dodge_chance in tenths
get_total_stats(p, t) ==
  [strength        |-> p.strength + SumBonus(p.equipment, "strength_bonus")
                       + SumBuffs(p.buffs, "strength", t),
   agility         |-> p.agility + SumBonus(p.equipment, "agility_bonus")
                       + SumBuffs(p.buffs, "agility", t),
   intelligence    |-> p.intelligence + SumBonus(p.equipment, "intelligence_bonus")
                       + SumBuffs(p.buffs, "intelligence", t),
   vitality        |-> p.vitality + SumBonus(p.equipment, "vitality_bonus")
                       + SumBuffs(p.buffs, "vitality", t),
   health          |-> p.max_health + SumBonus(p.equipment, "health_bonus")
                       + SumBuffs(p.buffs, "health", t),
   energy          |-> p.max_energy + SumBonus(p.equipment, "energy_bonus")
                       + SumBuffs(p.buffs, "energy", t),
   damage          |-> p.strength * 2 + SumBonus(p.equipment, "damage_bonus")
                       + SumBuffs(p.buffs, "damage", t),
   defense         |-> p.vitality * 15 + 10 * SumBonus(p.equipment, "defense_bonus")
                       + 10 * SumBuffs(p.buffs, "defense", t),
   critical_chance |-> p.agility * 5 + 10 * SumBuffs(p.buffs, "critical_chance", t),
   dodge_chance    |-> p.agility * 3 + 10 * SumBuffs(p.buffs, "dodge_chance", t)]

RECURSIVE ISqrt(_, _, _)
\* the largest r in lo..hi with r * r <= x
ISqrt(x, lo, hi) ==
  IF lo >= hi THEN lo
  ELSE LET mid == (lo + hi + 1) \div 2
       IN IF mid * mid <= x THEN ISqrt(x, mid, hi) ELSE ISqrt(x, lo, mid - 1)

\* Player.get_next_level_exp: int(100 * level ** 1.5)
get_next_level_exp(level) == ISqrt(10000 * level * level * level, 0, 100 * level * level)

\* a level-up applied once where the loop applies it repeatedly
LevelUpOnce(p) ==
  IF p.experience >= get_next_level_exp(p.level)
  THEN [p EXCEPT !.level = @ + 1,
                 !.strength = @ + 2, !.agility = @ + 2,
                 !.intelligence = @ + 2, !.vitality = @ + 2,
                 !.max_health = @ + 20, !.max_energy = @ + 10]
  ELSE p

RECURSIVE LevelUps(_)
\* the while loop of Player.add_experience
LevelUps(p) ==
  IF p.experience >= get_next_level_exp(p.level)
  THEN LevelUps([p EXCEPT !.level = @ + 1,
                          !.strength = @ + 2, !.agility = @ + 2,
                          !.intelligence = @ + 2, !.vitality = @ + 2,
                          !.max_health = @ + 20, !.max_energy = @ + 10])
  ELSE p

\* a call that grants the level bonuses once, however many levels it adds
add_experience_flat(p, amount) ==
  LET q == LevelUps([p EXCEPT !.experience = @ + amount])
  IN [player   |-> IF q.level > p.level
                   THEN [q EXCEPT !.strength = p.strength + 2, !.agility = p.agility + 2,
                                  !.intelligence = p.intelligence + 2,
                                  !.vitality = p.vitality + 2,
                                  !.max_health = p.max_health + 20,
                                  !.max_energy = p.max_energy + 10]
                   ELSE q,
      level_up |-> q.level > p.level]

\* Player.add_experience: the player after the call and the returned flag
add_experience(p, amount) ==
  LET q == LevelUps([p EXCEPT !.experience = @ + amount])
  IN [player |-> q, level_up |-> q.level > p.level]

\* Player.regenerate_energy without the cap of line 309
regenerate_energy_uncapped(p, t) ==
  LET energy_gain == (t - p.last_energy_regen) \div 60
  IN IF energy_gain > 0
     THEN [p EXCEPT !.energy = @ + energy_gain, !.last_energy_regen = t]
     ELSE p

\* Player.regenerate_energy at time t, ENERGY_REGEN_RATE = 1 a minute
regenerate_energy(p, t) ==
  LET energy_gain == (t - p.last_energy_regen) \div 60
  IN IF energy_gain > 0
     THEN [p EXCEPT !.energy = IF @ + energy_gain < p.max_energy THEN @ + energy_gain
                               ELSE p.max_energy,
                    !.last_energy_regen = t]
     ELSE p

\* a player_pets row with the column defaults, added at time t
NewPlayerPet(pet_id, is_active, t) ==
  [pet_id |-> pet_id, level |-> 1, experience |-> 0, happiness |-> 100,
   hunger |-> 0, last_fed |-> t, is_active |-> is_active]

RECURSIVE PetLevelUps(_)
\* the while loop of PlayerPet.add_experience, with PlayerPet.get_next_level_exp
PetLevelUps(row) ==
  IF row.experience >= get_next_level_exp(row.level)
  THEN PetLevelUps([row EXCEPT !.level = @ + 1])
  ELSE row

\* PlayerPet.add_experience: the row after the call and the returned flag
PlayerPet_add_experience(row, amount) ==
  LET after == PetLevelUps([row EXCEPT !.experience = @ + amount])
  IN [row |-> after, level_up |-> after.level > row.level]

\* the rows after lines 2521-2529: the first active row, if there is one,
\* gets int(experience * 0.5) and 10 happiness up to 100
RewardActivePet(pets, experience) ==
  LET active == {i \in 1 .. Len(pets) : pets[i].is_active}
  IN IF active = {} THEN pets
     ELSE LET i == CHOOSE a \in active : \A b \in active : a <= b
          IN [pets EXCEPT ![i] =
                [PlayerPet_add_experience(@, experience \div 2).row
                   EXCEPT !.happiness = IF @ + 10 < 100 THEN @ + 10 ELSE 100]]

\* ------------------------------------------------------------ combat
\* the outcomes of random.random() < chance / 100, chance in tenths of a percent
Draws(chance) == {b \in BOOLEAN : (b => chance > 0) /\ (~b => chance < 1000)}

\* a pass whose hits are the bare difference of damage and half the defense
BattleRoundUnfloored(stats, monster, s, crit, dodge) ==
  LET base           == stats.damage - (monster.defense \div 2)
      player_damage  == IF crit THEN base * 2 ELSE base
      monster_hp     == s.monster_hp - player_damage
      monster_damage == monster.damage - (stats.defense \div 20)
      player_hp      == IF monster_hp > 0 /\ ~dodge
                        THEN s.player_hp - monster_damage ELSE s.player_hp
  IN [player_hp |-> player_hp, monster_hp |-> monster_hp, rounds |-> s.rounds + 1]

\* a pass in which the player's defense takes nothing off the monster's hit
BattleRoundUnarmoured(stats, monster, s, crit, dodge) ==
  LET base           == Max(1, stats.damage - (monster.defense \div 2))
      player_damage  == IF crit THEN base * 2 ELSE base
      monster_hp     == s.monster_hp - player_damage
      monster_damage == Max(1, monster.damage)
      player_hp      == IF monster_hp > 0 /\ ~dodge
                        THEN s.player_hp - monster_damage ELSE s.player_hp
  IN [player_hp |-> player_hp, monster_hp |-> monster_hp, rounds |-> s.rounds + 1]

\* a pass in which a dodge halves the monster's hit
BattleRoundGlancing(stats, monster, s, crit, dodge) ==
  LET base           == Max(1, stats.damage - (monster.defense \div 2))
      player_damage  == IF crit THEN base * 2 ELSE base
      monster_hp     == s.monster_hp - player_damage
      monster_damage == Max(1, monster.damage - (stats.defense \div 20))
      player_hp      == IF monster_hp > 0
                        THEN s.player_hp - (IF dodge THEN (monster_damage + 1) \div 2
                                            ELSE monster_damage)
                        ELSE s.player_hp
  IN [player_hp |-> player_hp, monster_hp |-> monster_hp, rounds |-> s.rounds + 1]

\* a pass in which the monster strikes back whatever its health
BattleRoundLastGasp(stats, monster, s, crit, dodge) ==
  LET base           == Max(1, stats.damage - (monster.defense \div 2))
      player_damage  == IF crit THEN base * 2 ELSE base
      monster_damage == Max(1, monster.damage - (stats.defense \div 20))
  IN [player_hp  |-> IF dodge THEN s.player_hp ELSE s.player_hp - monster_damage,
      monster_hp |-> s.monster_hp - player_damage,
      rounds     |-> s.rounds + 1]

\* one pass through the body of the while loop of battle_calculation
BattleRound(stats, monster, s, crit, dodge) ==
  LET base           == Max(1, stats.damage - (monster.defense \div 2))
      player_damage  == IF crit THEN base * 2 ELSE base
      monster_hp     == s.monster_hp - player_damage
      monster_damage == Max(1, monster.damage - (stats.defense \div 20))
      player_hp      == IF monster_hp > 0 /\ ~dodge
                        THEN s.player_hp - monster_damage ELSE s.player_hp
  IN [player_hp |-> player_hp, monster_hp |-> monster_hp, rounds |-> s.rounds + 1]

\* a loop condition without the round limit
BattleRunsToDeath(s) == s.player_hp > 0 /\ s.monster_hp > 0

\* the loop condition of battle_calculation
BattleRuns(s) == s.player_hp > 0 /\ s.monster_hp > 0 /\ s.rounds < MaxRounds

RECURSIVE BattleLoop(_, _, _)
\* the states in which the while loop can end, from any of the states S
BattleLoop(stats, monster, S) ==
  LET running == {s \in S : BattleRuns(s)}
  IN IF running = {} THEN S
     ELSE (S \ running) \cup
          BattleLoop(stats, monster,
                     {BattleRound(stats, monster, s, crit, dodge) :
                        s \in running,
                        crit \in Draws(stats.critical_chance),
                        dodge \in Draws(stats.dodge_chance)})

\* the result dict of battle_calculation under every sequence of random draws,
\* for a stat block and a monsters row; start_hp is the local player_hp at the
\* start, timed_out says that the loop ended on rounds < 20 with both sides
\* above 0: both are kept to state properties of the result
BattleResults(stats, monster) ==
  {[victory |-> s.player_hp > 0, remaining_hp |-> s.player_hp, rounds |-> s.rounds,
    start_hp |-> stats.health,
    timed_out |-> s.rounds = MaxRounds /\ s.player_hp > 0 /\ s.monster_hp > 0] :
     s \in BattleLoop(stats, monster,
                      {[player_hp |-> stats.health, monster_hp |-> monster.health,
                        rounds |-> 0]})}

\* the stat blocks of a player without equipment and buffs at the first levels
EarlyStats ==
  {get_total_stats(LevelUps([NewPlayer EXCEPT !.experience = e]), 0) : e \in {0, 100, 300}}

\* BattleResults of the early stat blocks, computed once
EarlyResults ==
  {<<k, BattleResults(k[1], Monsters[k[2]])>> : k \in EarlyStats \X MonsterIds}

\* battle_calculation(player, monster, session) at time t
battle_calculation(p, m, t) ==
  LET stats == get_total_stats(p, t)
  IN IF <<stats, m>> \in EarlyStats \X MonsterIds
     THEN (CHOOSE e \in EarlyResults : e[1] = <<stats, m>>)[2]
     ELSE BattleResults(stats, Monsters[m])

\* ------------------------------------------------------------ rewards
\* a pass over the table that stops at the first entry that drops
DropSetsFirstOnly(table) ==
  {D \in SUBSET (DOMAIN table) :
     /\ Cardinality(D) <= 1
     /\ \A i \in D : TRUE \in Draws(table[i] * 10)
     /\ D = {} => \A i \in DOMAIN table : FALSE \in Draws(table[i] * 10)}

\* the sets of drop-table entries whose draw random.random() < chance succeeds
\* in one pass over the table
DropSets(table) ==
  {D \in SUBSET (DOMAIN table) :
     \A i \in DOMAIN table : (i \in D) \in Draws(table[i] * 10)}

\* the inventory table after session.add(Inventory(player_id, item_id,
\* quantity=1)) for each of item_ids: one more of each for the player
AddInventory(inv, item_ids) ==
  [i \in DOMAIN inv |-> IF i \in item_ids THEN inv[i] + 1 ELSE inv[i]]

\* process_battle_rewards(player, monster, session) for a monsters row: the
\* player and the inventory rows after it (it commits) and the dict it
\* returns, under every draw; an entry that drops counts if its item has a row
process_battle_rewards(p, inv, monster) ==
  {[player        |-> [add_experience(p, monster.experience_reward).player
                         EXCEPT !.batons = @ + baton_reward],
    inventory     |-> AddInventory(inv, D \cap DOMAIN Items),
    experience    |-> monster.experience_reward,
    batons        |-> baton_reward,
    level_up      |-> add_experience(p, monster.experience_reward).level_up,
    dropped_items |-> D \cap DOMAIN Items] :
     baton_reward \in monster.baton_reward_min .. monster.baton_reward_max,
     D \in DropSets(monster.drop_table)}

\* the draws of random.randint(100, 200) and random.randint(50, 100) taken
RewardExpDraws == {100, 200}

RewardBatonDraws == {50, 100}

\* process_dungeon_rewards(player, dungeon, session): it changes the player
\* and the active companion,
\* then reads dungeon.possible_loot, which class Dungeon does not define, so
\* the AttributeError leaves it before its session.commit()
process_dungeon_rewards(p, pets, d) ==
  {[raised      |-> "possible_loot" \notin DungeonColumns,
    player      |-> [add_experience(p, e * Dungeons[d].min_level).player
                       EXCEPT !.batons = @ + b * Dungeons[d].min_level],
    player_pets |-> RewardActivePet(pets, e * Dungeons[d].min_level),
    committed   |-> "possible_loot" \in DungeonColumns] :
     e \in RewardExpDraws, b \in RewardBatonDraws}

\* ------------------------------------------------------------ state
\* no dungeon_progress row for the pair (player, dungeon); records counts the
\* rows of the pair in the table, the other fields are those of the row that
\* .first() returns
NoProgress ==
  [exists |-> FALSE, records |-> 0, completed_times |-> 0, best_time |-> None, last_attempt |-> None,
   active |-> FALSE, current_room |-> 0, monsters_defeated |-> 0,
   hp_remaining |-> 0, start_time |-> 0]

\* what the last step did: the handler, the message it answered with, the
\* fights it resolved, the calls of process_dungeon_rewards it made, the
\* exception that left it (or "") and whether it reached a session.commit();
\* lost[d] tells that a fight of the run in dungeon d was lost since its entry;
\* call is the function that runs on its own, with its arguments and locals;
\* player_pets is the player_pets table, in the order of its ids; keyboards
\* tells the buttons of the messages in the chat that can still be pressed
Did(handler, dungeon, reply, fights, settled, raised, committed) ==
  [handler |-> handler, dungeon |-> dungeon, reply |-> reply, fights |-> fights,
   settled |-> settled, raised |-> raised, committed |-> committed]

\* no function is under way outside a handler
NoCall == [fn |-> ""]

\* a chat without buttons: starter counts the messages that show the keyboard
\* of lines 1926-1933, toggle holds the player_pets ids with a button of
\* lines 1968-1971
NoKeyboards == [starter |-> 0, toggle |-> {}]

Init ==
  /\ now = 0
  /\ player = NewPlayer
  /\ inventory = [i \in DOMAIN Items |-> 0]
  /\ fsm = "main_menu"
  /\ monster_id = ""
  /\ progress = [d \in DungeonIds |-> NoProgress]
  /\ last = Did("", "", "", << >>, 0, "", FALSE)
  /\ lost = [d \in DungeonIds |-> FALSE]
  /\ call = NoCall
  /\ player_pets = << >>
  /\ keyboards = NoKeyboards

\* the clock: datetime.utcnow() moves on between two requests
Tick(d) ==
  /\ now + d <= MaxTime
  /\ now' = now + d
  /\ last' = Did("", "", "", << >>, 0, "", FALSE)
  /\ UNCHANGED <<player, inventory, fsm, monster_id, progress, lost, call, player_pets, keyboards>>

\* ------------------------------------------------------------ battle handlers
handle_battle(m) ==
  /\ fsm = "main_menu"
  /\ player.experience < MaxExperience
  /\ LET available_monsters == {x \in MonsterIds : Monsters[x].required_level <= player.level}
     IN IF player.energy < 10
        THEN /\ last' = Did("handle_battle", "", "no_energy", << >>, 0, "", FALSE)
             /\ UNCHANGED <<fsm, monster_id>>
        ELSE IF available_monsters = {}
        THEN /\ last' = Did("handle_battle", "", "no_monsters", << >>, 0, "", FALSE)
             /\ UNCHANGED <<fsm, monster_id>>
        ELSE /\ m \in available_monsters
             /\ fsm' = "battle"
             /\ monster_id' = m
             /\ last' = Did("handle_battle", "", "encounter", << >>, 0, "", FALSE)
  /\ UNCHANGED <<now, player, inventory, progress, lost, call, player_pets, keyboards>>

\* a fight of a handler: the monster and the result of battle_calculation
Fight(m, r) ==
  [monster |-> m, victory |-> r.victory, remaining_hp |-> r.remaining_hp,
   start_hp |-> r.start_hp, timed_out |-> r.timed_out]

process_battle_action(data) ==
  /\ fsm = "battle"
  /\ IF data = "battle_flee"
     THEN /\ player' = [player EXCEPT !.energy = Max(0, @ - FleeEnergyLoss)]
          /\ last' = Did("process_battle_action", "", "fled", << >>, 0, "", TRUE)
          /\ UNCHANGED inventory
     ELSE \E r \in battle_calculation(player, monster_id, now) :
            LET fought == [player EXCEPT !.health = r.remaining_hp,
                                         !.energy = @ - BattleEnergyCost]
            IN IF r.victory
               THEN \E w \in process_battle_rewards(fought, inventory, Monsters[monster_id]) :
                      /\ player' = w.player
                      /\ inventory' = w.inventory
                      /\ last' = Did("process_battle_action", "", "victory",
                                     <<Fight(monster_id, r)>>, 0, "", TRUE)
               ELSE /\ player' = fought
                    /\ UNCHANGED inventory
                    /\ last' = Did("process_battle_action", "", "defeat",
                                   <<Fight(monster_id, r)>>, 0, "", TRUE)
  /\ fsm' = "main_menu"
  /\ UNCHANGED <<now, monster_id, progress, lost, call, player_pets, keyboards>>

\* ------------------------------------------------------------ dungeon handlers
show_dungeons ==
  /\ fsm = "main_menu"
  /\ IF {d \in DungeonIds : Dungeons[d].min_level <= player.level} = {}
     THEN /\ last' = Did("show_dungeons", "", "no_dungeons", << >>, 0, "", FALSE)
          /\ UNCHANGED fsm
     ELSE /\ fsm' = "dungeon"
          /\ last' = Did("show_dungeons", "", "dungeon_list", << >>, 0, "", FALSE)
  /\ UNCHANGED <<now, player, inventory, monster_id, progress, lost, call, player_pets, keyboards>>

\* a cooldown counted in minutes
CooldownMinutes(d) == Dungeons[d].cooldown * 60

\* timedelta(hours=dungeon.cooldown), in seconds
CooldownSeconds(d) == Dungeons[d].cooldown * 3600

\* a cooldown that still runs at the instant it ends
OnCooldownInclusive(d) ==
  /\ progress[d].exists
  /\ progress[d].last_attempt # None
  /\ now <= progress[d].last_attempt + Dungeons[d].cooldown * 3600

\* the test of lines 775-777: a row with a last_attempt whose cooldown runs
OnCooldown(d) ==
  /\ progress[d].exists
  /\ progress[d].last_attempt # None
  /\ now < progress[d].last_attempt + CooldownSeconds(d)

\* an energy test that only rejects a player without any energy
LacksAllEnergy(d) == player.energy <= 0

\* the test of line 788
LacksEnergy(d) == player.energy < Dungeons[d].energy_cost

\* an entry that adds a row of its own without looking for one
EnteredAnew(row, health, t) ==
  [row EXCEPT !.exists = TRUE,
              !.records = @ + 1,
              !.last_attempt = t,
              !.active = TRUE,
              !.current_room = 0,
              !.monsters_defeated = 0,
              !.hp_remaining = health,
              !.start_time = t]

\* the row of lines 799-813: created if there is none, then started anew
Entered(row, health, t) ==
  [row EXCEPT !.exists = TRUE,
              !.records = IF row.exists THEN @ ELSE @ + 1,
              !.last_attempt = t,
              !.active = TRUE,
              !.current_room = 0,
              !.monsters_defeated = 0,
              !.hp_remaining = health,
              !.start_time = t]

process_dungeon_selection(d) ==
  /\ fsm = "dungeon"
  /\ IF d \notin RequestIds
     THEN \* line 761: int() of a word that is no number
          /\ last' = Did("process_dungeon_selection", d, "", << >>, 0, "ValueError", FALSE)
          /\ UNCHANGED <<fsm, player, progress, lost>>
     ELSE IF d \notin DungeonIds
     THEN /\ fsm' = "main_menu"
          /\ last' = Did("process_dungeon_selection", d, "not_found", << >>, 0, "", FALSE)
          /\ UNCHANGED <<player, progress, lost>>
     ELSE IF OnCooldown(d)
     THEN /\ last' = Did("process_dungeon_selection", d, "cooldown", << >>, 0, "", FALSE)
          /\ UNCHANGED <<fsm, player, progress, lost>>
     ELSE IF LacksEnergy(d)
     THEN /\ last' = Did("process_dungeon_selection", d, "no_energy", << >>, 0, "", FALSE)
          /\ UNCHANGED <<fsm, player, progress, lost>>
     ELSE /\ player' = [player EXCEPT !.energy = @ - Dungeons[d].energy_cost]
          /\ progress' = [progress EXCEPT ![d] = Entered(@, player.health, now)]
          /\ last' = Did("process_dungeon_selection", d, "entered", << >>, 0, "", TRUE)
          /\ lost' = [lost EXCEPT ![d] = FALSE]
          /\ UNCHANGED fsm
  /\ UNCHANGED <<now, inventory, monster_id, call, player_pets, keyboards>>

RECURSIVE Repeat(_, _)
\* [monster] * count
Repeat(m, count) == IF count <= 0 THEN << >> ELSE <<m>> \o Repeat(m, count - 1)

RECURSIVE RoomMonsters(_)
\* room_monsters of lines 861-865: the monsters of a room that have a row
RoomMonsters(group) ==
  IF group = << >> THEN << >>
  ELSE (IF Head(group)[1] \in MonsterIds THEN Repeat(Head(group)[1], Head(group)[2])
        ELSE << >>)
       \o RoomMonsters(Tail(group))

RECURSIVE RoomFights(_, _, _)
\* the for loop of lines 869-882 on the handler's player object: the fights
\* resolved, whether all were won, and the player object after it
RoomFights(p, monsters, t) ==
  IF monsters = << >> THEN {[fights |-> << >>, victory |-> TRUE, player |-> p]}
  ELSE UNION {
         IF ~r.victory
         THEN {[fights |-> <<Fight(Head(monsters), r)>>, victory |-> FALSE, player |-> p]}
         ELSE {[fights  |-> <<Fight(Head(monsters), r)>> \o rest.fights,
                victory |-> rest.victory,
                player  |-> rest.player] :
                 rest \in RoomFights([p EXCEPT !.health = r.remaining_hp],
                                     Tail(monsters), t)} :
         r \in battle_calculation(p, Head(monsters), t)}

\* a test that only looks for the dungeon, not for a run in it
NoDungeon(d) == d \notin DungeonIds

\* the test of line 842: no row, or a row without current_progress
NoRun(d) == d \notin DungeonIds \/ ~progress[d].exists \/ ~progress[d].active

\* a time limit that is already over when the elapsed time equals it
TimeIsUpInclusive(d) == now - progress[d].start_time >= Dungeons[d].completion_time * 60

\* the test of lines 850-851
TimeIsUp(d) == now - progress[d].start_time > Dungeons[d].completion_time * 60

\* the test of line 860
RoomLeft(d) == progress[d].current_room < Len(Dungeons[d].monster_groups)

\* a room counter that moves on by one for every fight won
RoomDoneByFights(row, run) ==
  [row EXCEPT !.monsters_defeated = @ + Len(run.fights),
              !.current_room      = @ + Len(run.fights),
              !.hp_remaining      = run.player.health]

\* the row after lines 882-886, when the fights of a room were all won
RoomDone(row, run) ==
  [row EXCEPT !.monsters_defeated = @ + Len(run.fights),
              !.current_room      = @ + 1,
              !.hp_remaining      = run.player.health]

\* the rows are left as they were: the handler returned or raised before a
\* session.commit()
Uncommitted == UNCHANGED <<player, inventory, progress, player_pets>>

process_dungeon_room(d) ==
  /\ fsm = "dungeon"
  /\ IF NoRun(d)
     THEN /\ fsm' = "main_menu"
          /\ last' = Did("process_dungeon_room", d, "no_progress", << >>, 0, "", FALSE)
          /\ Uncommitted
          /\ UNCHANGED lost
     ELSE IF TimeIsUp(d)
     THEN /\ fsm' = "main_menu"
          /\ last' = Did("process_dungeon_room", d, "expired", << >>, 0, "", FALSE)
          /\ Uncommitted
          /\ UNCHANGED lost
     ELSE IF RoomLeft(d)
     THEN
       LET dungeon == Dungeons[d]
           group   == dungeon.monster_groups[progress[d].current_room + 1]
       IN
       \E run \in RoomFights(player, RoomMonsters(group), now) :
         IF ~run.victory
         THEN /\ fsm' = "main_menu"
              /\ last' = Did("process_dungeon_room", d, "room_failed", run.fights, 0, "", FALSE)
              /\ lost' = [lost EXCEPT ![d] = TRUE]
              /\ Uncommitted
         ELSE
           IF RoomDone(progress[d], run).current_room >= Len(dungeon.monster_groups)
           THEN
             IF dungeon.boss_id # ""
             THEN
               IF dungeon.boss_id \notin MonsterIds
               THEN \* boss is None: battle_calculation reads monster.health
                    /\ last' = Did("process_dungeon_room", d, "", run.fights, 0,
                                   "AttributeError", FALSE)
                    /\ Uncommitted
                    /\ UNCHANGED <<fsm, lost>>
               ELSE
                 \E b \in battle_calculation(run.player, dungeon.boss_id, now) :
                   LET fights == run.fights \o <<Fight(dungeon.boss_id, b)>>
                   IN
                   IF b.victory
                   THEN
                     \E w \in process_dungeon_rewards(run.player, player_pets, d) :
                       IF w.raised
                       THEN /\ last' = Did("process_dungeon_room", d, "", fights, 1,
                                           "AttributeError", FALSE)
                            /\ Uncommitted
                            /\ UNCHANGED <<fsm, lost>>
                       ELSE \* the commit of process_dungeon_rewards saves the room and
                            \* the rewards; completed_times and best_time are set after
                            \* it, and line 921 raises before the commit of line 960
                            /\ player' = w.player
                            /\ player_pets' = w.player_pets
                            /\ \E saved \in BOOLEAN :
                                 progress' = IF saved
                                             THEN [progress EXCEPT ![d] = RoomDone(@, run)]
                                             ELSE progress
                            /\ last' = Did("process_dungeon_room", d, "completed", fights, 1,
                                           "NameError", TRUE)
                            /\ UNCHANGED <<inventory, fsm, lost>>
                   ELSE \* line 921 reads the name victory, which nothing binds
                        /\ last' = Did("process_dungeon_room", d, "", fights, 0,
                                       "NameError", FALSE)
                        /\ lost' = [lost EXCEPT ![d] = TRUE]
                        /\ Uncommitted
                        /\ UNCHANGED fsm
             ELSE \* no boss_id: nothing but the commit of line 960
                  /\ player' = run.player
                  /\ \E saved \in BOOLEAN :
                       progress' = IF saved THEN [progress EXCEPT ![d] = RoomDone(@, run)]
                                   ELSE progress
                  /\ last' = Did("process_dungeon_room", d, "", run.fights, 0, "", TRUE)
                  /\ UNCHANGED <<inventory, fsm, lost, player_pets>>
           ELSE \* not the last room: the handler ends without a commit
                /\ last' = Did("process_dungeon_room", d, "", run.fights, 0, "", FALSE)
                /\ Uncommitted
                /\ UNCHANGED <<fsm, lost>>
     ELSE \* current_room >= len(dungeon.monster_groups): nothing is done
          /\ last' = Did("process_dungeon_room", d, "", << >>, 0, "", FALSE)
          /\ Uncommitted
          /\ UNCHANGED <<fsm, lost>>
  /\ UNCHANGED <<now, monster_id, call, keyboards>>

\* ------------------------------------------------------------ pet handlers
\* rows of the pets table: only the column the handlers decide on
Pets == [cat |-> [rarity |-> "common"], dragon |-> [rarity |-> "rare"],
         wolf |-> [rarity |-> "common"]]

PetIds == DOMAIN Pets

\* the price show_pet_shop writes into the callback data of a pet's button:
\* lines 2251-2256 and 2269
PetPrice(pet_id) ==
  LET rarity == Pets[pet_id].rarity
  IN IF rarity = "common" THEN 100
     ELSE IF rarity = "rare" THEN 300
     ELSE IF rarity = "epic" THEN 1000
     ELSE IF rarity = "legendary" THEN 5000
     ELSE 100

\* PlayerPet.update_status without the cap of line 1909
update_status_uncapped(row, t) ==
  LET hunger == row.hunger + ((t - row.last_fed) * 5) \div 3600
  IN [row EXCEPT !.hunger = hunger,
                 !.happiness = IF hunger > 50 THEN Max(0, @ - (hunger - 50) \div 2) ELSE @]

\* PlayerPet.update_status at time t
update_status(row, t) ==
  LET grown  == row.hunger + ((t - row.last_fed) * 5) \div 3600
      hunger == IF grown < 100 THEN grown ELSE 100
  IN [row EXCEPT !.hunger = hunger,
                 !.happiness = IF hunger > 50 THEN Max(0, @ - (hunger - 50) \div 2) ELSE @]

show_pets ==
  /\ fsm = "main_menu"
  /\ IF player_pets = << >>
     THEN /\ keyboards.starter < MaxMessages
          /\ keyboards' = [keyboards EXCEPT !.starter = @ + 1]
          /\ last' = Did("show_pets", "", "starter_keyboard", << >>, 0, "", FALSE)
          /\ UNCHANGED player_pets
     ELSE /\ player_pets' = [i \in 1 .. Len(player_pets) |-> update_status(player_pets[i], now)]
          /\ keyboards' = [keyboards EXCEPT !.toggle = 1 .. Len(player_pets)]
          /\ last' = Did("show_pets", "", "pet_list", << >>, 0, "", TRUE)
  /\ UNCHANGED <<now, player, inventory, fsm, monster_id, progress, lost, call>>

\* the player_pets table after lines 2007-2013
Chosen(pets, pet_id, t) == Append(pets, NewPlayerPet(pet_id, TRUE, t))

\* a button of a starter keyboard is pressed; edit_text takes the keyboard off
\* its message
process_starter_pet_choice(pet_id) ==
  /\ keyboards.starter > 0
  /\ Pets[pet_id].rarity = "common"
  /\ Len(player_pets) < MaxPets
  /\ player_pets' = Chosen(player_pets, pet_id, now)
  /\ keyboards' = [keyboards EXCEPT !.starter = @ - 1]
  /\ last' = Did("process_starter_pet_choice", "", "got_pet", << >>, 0, "", TRUE)
  /\ UNCHANGED <<now, player, inventory, fsm, monster_id, progress, lost, call>>

\* the player_pets table after lines 2031-2040 for the row id
Toggled(pets, id) ==
  [i \in 1 .. Len(pets) |->
     IF i = id THEN [pets[i] EXCEPT !.is_active = ~@]
     ELSE IF ~pets[id].is_active THEN [pets[i] EXCEPT !.is_active = FALSE]
     ELSE pets[i]]

\* a toggle button is pressed; after the commit the handler calls show_pets
\* with the bot's own message, whose sender has no players row, so line 1922
\* raises on player.id
toggle_pet(id) ==
  /\ id \in keyboards.toggle
  /\ IF id \notin 1 .. Len(player_pets)
     THEN /\ last' = Did("toggle_pet", "", "not_found", << >>, 0, "", FALSE)
          /\ UNCHANGED player_pets
     ELSE /\ player_pets' = Toggled(player_pets, id)
          /\ last' = Did("toggle_pet", "", "", << >>, 0, "AttributeError", TRUE)
  /\ UNCHANGED <<now, player, inventory, fsm, monster_id, progress, lost, call, keyboards>>

\* the row after lines 2061-2063 at time t
Fed(row, t) ==
  [row EXCEPT !.hunger = Max(0, @ - 50),
              !.happiness = IF @ + 20 < 100 THEN @ + 20 ELSE 100,
              !.last_fed = t]

\* a feed button is pressed (it sits next to the toggle button of its row,
\* lines 1972-1975); .get(pet_id) is not tested for None, and after the commit
\* show_pets is called with the bot's own message, as in toggle_pet
feed_pet(id) ==
  /\ id \in keyboards.toggle
  /\ IF player.batons < 10
     THEN /\ last' = Did("feed_pet", "", "no_batons", << >>, 0, "", FALSE)
          /\ UNCHANGED <<player, player_pets>>
     ELSE IF id \notin 1 .. Len(player_pets)
     THEN /\ last' = Did("feed_pet", "", "", << >>, 0, "AttributeError", FALSE)
          /\ UNCHANGED <<player, player_pets>>
     ELSE /\ player' = [player EXCEPT !.batons = @ - 10]
          /\ player_pets' = [player_pets EXCEPT ![id] = Fed(@, now)]
          /\ last' = Did("feed_pet", "", "", << >>, 0, "AttributeError", TRUE)
  /\ UNCHANGED <<now, inventory, fsm, monster_id, progress, lost, call, keyboards>>

\* the player_pets table after lines 2304-2310
Bought(pets, pet_id, t) == Append(pets, NewPlayerPet(pet_id, FALSE, t))

\* a button pet_buy_<pet_id>_<price> is pressed
buy_pet(pet_id, price) ==
  /\ IF player.batons < price
     THEN /\ last' = Did("buy_pet", "", "no_batons", << >>, 0, "", FALSE)
          /\ UNCHANGED <<player, player_pets>>
     ELSE IF \E i \in 1 .. Len(player_pets) : player_pets[i].pet_id = pet_id
     THEN /\ last' = Did("buy_pet", "", "already_owned", << >>, 0, "", FALSE)
          /\ UNCHANGED <<player, player_pets>>
     ELSE /\ Len(player_pets) < MaxPets
          /\ player' = [player EXCEPT !.batons = @ - price]
          /\ player_pets' = Bought(player_pets, pet_id, now)
          /\ last' = Did("buy_pet", "", "bought", << >>, 0, "", TRUE)
  /\ UNCHANGED <<now, inventory, fsm, monster_id, progress, lost, call, keyboards>>

\* ------------------------------------------------------------ crafting
\* rows of the recipes table; materials is the JSON dict in its own order
Recipes ==
  [blade |-> [result_item_id |-> "sword", result_quantity |-> 1, required_level |-> 1,
              energy_cost |-> 20, experience |-> 30,
              materials |-> << <<"potion", 2>>, <<"shield", 1>> >>],
   tonic |-> [result_item_id |-> "potion", result_quantity |-> 2, required_level |-> 1,
              energy_cost |-> 5, experience |-> 10,
              materials |-> << <<"shield", 1>> >>]]

RecipeIds == DOMAIN Recipes

\* a session whose every change reaches the database
PersistedAtOnce(committed, new, old) == new

\* what the database holds after a handler whose session holds `new`: a
\* session that is not committed leaves the rows as they were
Persisted(committed, new, old) == IF committed THEN new ELSE old

RECURSIVE SpendMaterials(_, _)
\* the loop of lines 1104-1118 on the session's inventory rows (no row is
\* quantity 0, every required quantity is above 0): the rows when the loop is
\* left and whether it was left by its end
SpendMaterials(inv, materials) ==
  IF materials = << >> THEN [inventory |-> inv, enough |-> TRUE]
  ELSE LET material_id  == Head(materials)[1]
           required_qty == Head(materials)[2]
       IN IF inv[material_id] < required_qty
          THEN [inventory |-> inv, enough |-> FALSE]
          ELSE SpendMaterials([inv EXCEPT ![material_id] = @ - required_qty],
                              Tail(materials))

\* the session of create_item when the handler is left: lines 1096-1148; the
\* name get_next_crafting_level_exp of line 1143 is defined nowhere, so a
\* creation is left by NameError before the commit of line 1148
CreateItemSession(p, inv, recipe) ==
  IF p.energy < recipe.energy_cost
  THEN [player |-> p, inventory |-> inv, reply |-> "no_energy", raised |-> "",
        committed |-> FALSE]
  ELSE LET spent == SpendMaterials(inv, recipe.materials)
       IN IF ~spent.enough
          THEN [player |-> p, inventory |-> spent.inventory, reply |-> "no_materials",
                raised |-> "", committed |-> FALSE]
          ELSE [player    |-> [p EXCEPT !.energy = @ - recipe.energy_cost,
                                        !.crafting_experience = @ + recipe.experience],
                inventory |-> [spent.inventory EXCEPT ![recipe.result_item_id] =
                                 @ + recipe.result_quantity],
                reply     |-> "",
                raised    |-> "NameError",
                committed |-> FALSE]

\* the crafting command: lines 977-1013
show_crafting ==
  /\ fsm = "main_menu"
  /\ IF {r \in RecipeIds : Recipes[r].required_level <= player.level} = {}
     THEN /\ last' = Did("show_crafting", "", "no_recipes", << >>, 0, "", FALSE)
          /\ UNCHANGED fsm
     ELSE /\ last' = Did("show_crafting", "", "categories", << >>, 0, "", FALSE)
          /\ fsm' = "craft"
  /\ UNCHANGED <<now, player, inventory, monster_id, progress, lost, call, player_pets, keyboards>>

\* a button craft_create_<recipe_id> is pressed; last keeps the recipe and the
\* session's objects as the handler leaves them
create_item(recipe_id) ==
  /\ fsm = "craft"
  /\ LET w == CreateItemSession(player, inventory, Recipes[recipe_id])
     IN /\ player' = Persisted(w.committed, w.player, player)
        /\ inventory' = Persisted(w.committed, w.inventory, inventory)
        /\ last' = [handler |-> "create_item", dungeon |-> "", reply |-> w.reply,
                    fights |-> << >>, settled |-> 0, raised |-> w.raised,
                    committed |-> w.committed, recipe_id |-> recipe_id,
                    session |-> [player |-> w.player, inventory |-> w.inventory]]
  /\ UNCHANGED <<now, fsm, monster_id, progress, lost, call, player_pets, keyboards>>

\* players as battles, flees and drops leave them: the energy and the
\* inventory quantities differ
CraftEnergies == {0, 10, 100}

InitCraft ==
  /\ Init!1 /\ Init!4 /\ Init!5 /\ Init!6 /\ Init!7 /\ Init!8 /\ Init!9 /\ Init!10 /\ Init!11
  /\ \E energy \in CraftEnergies : player = [NewPlayer EXCEPT !.energy = energy]
  /\ inventory \in [DOMAIN Items -> 0 .. MaxStock]

\* ------------------------------------------------------------ PvP bookkeeping
\* the rating differences loser_rating - winner_rating from -400 to 400 at
\* which round(32 * (1 - 1 / (1 + 10 ** (difference / 400)))) goes up by one;
\* it is 3 at -400
EloSteps ==
  <<-364, -314, -273, -237, -205, -176, -149, -124, -100, -77, -54, -32, -10,
    11, 33, 55, 78, 101, 125, 150, 177, 206, 238, 274, 315, 365>>

\* calculate_rating_change for ratings at most 400 apart: abs(round(K * (1 -
\* expected))) for the winner, abs(round(K * (0 - expected))) otherwise
calculate_rating_change(winner_rating, loser_rating, is_winner) ==
  LET up == Cardinality({i \in 1 .. Len(EloSteps) :
                           EloSteps[i] <= loser_rating - winner_rating})
  IN IF is_winner THEN 3 + up ELSE 29 - up

\* lines 1584-1621 with a second call of calculate_rating_change for the
\* player who is not the winner
PvpSettlementEachOwn(p, o, victory, reward_batons, reward_exp) ==
  LET gain == calculate_rating_change(p.pvp_rating, o.pvp_rating, victory)
      loss == calculate_rating_change(p.pvp_rating, o.pvp_rating, ~victory)
  IN IF victory
     THEN [player   |-> [add_experience([p EXCEPT !.batons = @ + reward_batons],
                                        reward_exp).player
                           EXCEPT !.wins = @ + 1, !.pvp_rating = @ + gain],
           opponent |-> [o EXCEPT !.losses = @ + 1, !.pvp_rating = @ - loss]]
     ELSE [player   |-> [p EXCEPT !.losses = @ + 1, !.pvp_rating = @ - gain],
           opponent |-> [o EXCEPT !.wins = @ + 1, !.pvp_rating = @ + loss]]

\* the two players rows after lines 1584-1621, for the outcome of the loop and
\* the draws of lines 1595-1596
PvpSettlement(p, o, victory, reward_batons, reward_exp) ==
  IF victory
  THEN LET rating_diff == calculate_rating_change(p.pvp_rating, o.pvp_rating, TRUE)
       IN [player   |-> [add_experience([p EXCEPT !.batons = @ + reward_batons],
                                        reward_exp).player
                           EXCEPT !.wins = @ + 1, !.pvp_rating = @ + rating_diff],
           opponent |-> [o EXCEPT !.losses = @ + 1, !.pvp_rating = @ - rating_diff]]
  ELSE LET rating_diff == calculate_rating_change(p.pvp_rating, o.pvp_rating, FALSE)
       IN [player   |-> [p EXCEPT !.losses = @ + 1, !.pvp_rating = @ - rating_diff],
           opponent |-> [o EXCEPT !.wins = @ + 1, !.pvp_rating = @ + rating_diff]]

\* the rows of the attacker p and of the opponent o after process_pvp_attack,
\* lines 1523-1626, and whether it reached its commit
PvpAttack(p, o, victory, reward_batons, reward_exp) ==
  IF p.energy < 20
  THEN [player |-> p, opponent |-> o, committed |-> FALSE]
  ELSE LET w == PvpSettlement([p EXCEPT !.energy = @ - 20], o, victory,
                              reward_batons, reward_exp)
       IN [player |-> w.player, opponent |-> w.opponent, committed |-> TRUE]

\* a player of level 5, the level the arena opens at
ArenaPlayer == add_experience(NewPlayer, 800).player

\* two players of the arena: the user in player, the other in call.opponent;
\* bouts counts the attacks between them
InitArena ==
  /\ Init!1 /\ Init!3 /\ Init!4 /\ Init!5 /\ Init!6 /\ Init!7 /\ Init!8 /\ Init!10 /\ Init!11
  /\ player = ArenaPlayer
  /\ call = [fn |-> "pvp_arena", pc |-> "idle", opponent |-> ArenaPlayer,
             bouts |-> 0]

\* the arena command: lines 1477-1520; the other player is within two levels
show_pvp_arena ==
  /\ fsm = "main_menu"
  /\ call.fn = "pvp_arena"
  /\ call.pc = "idle"
  /\ IF player.level < 5
     THEN /\ last' = Did("show_pvp_arena", "", "level_too_low", << >>, 0, "", FALSE)
          /\ UNCHANGED fsm
     ELSE IF ~(player.level - 2 <= call.opponent.level /\ call.opponent.level <= player.level + 2)
     THEN /\ last' = Did("show_pvp_arena", "", "no_opponents", << >>, 0, "", FALSE)
          /\ UNCHANGED fsm
     ELSE /\ last' = Did("show_pvp_arena", "", "opponents", << >>, 0, "", FALSE)
          /\ fsm' = "pvp"
  /\ UNCHANGED <<now, player, inventory, monster_id, progress, lost, call, player_pets, keyboards>>

\* the user presses the button of the other player: lines 1523-1626; victory
\* is what the loop of lines 1546-1582 comes to
process_pvp_attack(victory, reward_batons, reward_exp) ==
  /\ fsm = "pvp"
  /\ call.fn = "pvp_arena"
  /\ call.pc = "idle"
  /\ call.bouts < MaxBouts
  /\ LET w == PvpAttack(player, call.opponent, victory, reward_batons, reward_exp)
     IN /\ player' = w.player
        /\ call' = [call EXCEPT !.opponent = w.opponent, !.bouts = @ + 1]
        /\ fsm' = IF w.committed THEN "main_menu" ELSE fsm
        /\ last' = Did("process_pvp_attack", "", IF w.committed THEN "" ELSE "no_energy",
                       << >>, 0, "", w.committed)
  /\ UNCHANGED <<now, inventory, monster_id, progress, lost, player_pets, keyboards>>

\* the other player presses the button of the user in a chat of their own
PvpAttacked(victory, reward_batons, reward_exp) ==
  /\ call.fn = "pvp_arena"
  /\ call.pc = "idle"
  /\ call.bouts < MaxBouts
  /\ LET w == PvpAttack(call.opponent, player, victory, reward_batons, reward_exp)
     IN /\ player' = w.opponent
        /\ call' = [call EXCEPT !.opponent = w.player, !.bouts = @ + 1]
        /\ last' = Did("process_pvp_attack", "", IF w.committed THEN "attacked" ELSE "no_energy",
                       << >>, 0, "", w.committed)
  /\ UNCHANGED <<now, inventory, fsm, monster_id, progress, lost, player_pets, keyboards>>

\* ------------------------------------------------------------ one battle
\* stat blocks as get_total_stats returns them; only the keys the battle reads
\* differ: the block of a new player, one with a defense above every damage,
\* one whose draws always succeed, and one with little health
CombatStats ==
  LET new == get_total_stats(NewPlayer, 0)
  IN {new,
      [new EXCEPT !.defense = 5000, !.critical_chance = 0, !.dodge_chance = 0],
      [new EXCEPT !.critical_chance = 1000, !.dodge_chance = 1000],
      [new EXCEPT !.health = 3, !.damage = 1]}

\* a monsters row with health 100, damage 10 and no defense
Dummy == [Monsters["rat"] EXCEPT !.health = 100, !.damage = 10, !.defense = 0]

\* monsters rows: those of the table, one with a defense above every damage
\* and the dummy
CombatMonsters ==
  {Monsters[m] : m \in MonsterIds}
  \cup {[Monsters["rat"] EXCEPT !.health = 5, !.damage = 1, !.defense = 1000], Dummy}

\* battle_calculation is called: lines 551-556; lucky tells whether a draw of
\* the call has succeeded so far
InitCombat ==
  /\ Init!1 /\ Init!2 /\ Init!3 /\ Init!4 /\ Init!5 /\ Init!6 /\ Init!7 /\ Init!8 /\ Init!10 /\ Init!11
  /\ \E stats \in CombatStats, monster \in CombatMonsters :
       call = [fn |-> "battle_calculation", pc |-> "while",
               stats |-> stats, monster |-> monster,
               s |-> [player_hp |-> stats.health, monster_hp |-> monster.health,
                      rounds |-> 0],
               crit |-> FALSE, dodge |-> FALSE, lucky |-> FALSE]

\* one pass through the loop of lines 558-579, with the draws of lines 561, 572
WhileBody(crit, dodge) ==
  /\ call.fn = "battle_calculation"
  /\ call.pc = "while"
  /\ BattleRuns(call.s)
  /\ crit \in Draws(call.stats.critical_chance)
  /\ dodge \in Draws(call.stats.dodge_chance)
  /\ call' = [call EXCEPT !.s = BattleRound(call.stats, call.monster, call.s, crit, dodge),
                          !.crit = crit,
                          !.dodge = dodge,
                          !.lucky = \/ @
                                    \/ crit
                                    \/ /\ dodge
                                       /\ BattleRound(call.stats, call.monster, call.s,
                                                      crit, dodge).monster_hp > 0]
  /\ UNCHANGED <<now, player, inventory, fsm, monster_id, progress, last, lost, player_pets, keyboards>>

\* one pass through the loop of process_pvp_attack, lines 1546-1580, between
\* the stat blocks of the player and of the opponent; the opponent's health is
\* kept in monster_hp; draws holds the outcomes of the draws of lines 1549,
\* 1557, 1566 and 1574
PvpRound(player_stats, opponent_stats, s, draws) ==
  LET base            == Max(1, player_stats.damage - (opponent_stats.defense \div 20))
      player_damage   == IF draws.crit THEN base * 2 ELSE base
      opponent_hp     == IF draws.opponent_dodge THEN s.monster_hp
                         ELSE s.monster_hp - player_damage
      back            == Max(1, opponent_stats.damage - (player_stats.defense \div 20))
      opponent_damage == IF draws.opponent_crit THEN back * 2 ELSE back
      player_hp       == IF opponent_hp > 0 /\ ~draws.dodge
                         THEN s.player_hp - opponent_damage ELSE s.player_hp
  IN [player_hp |-> player_hp, monster_hp |-> opponent_hp, rounds |-> s.rounds + 1]

\* the outcomes of the four draws of a pass
PvpDraws(player_stats, opponent_stats) ==
  [crit           : Draws(player_stats.critical_chance),
   opponent_dodge : Draws(opponent_stats.dodge_chance),
   opponent_crit  : Draws(opponent_stats.critical_chance),
   dodge          : Draws(player_stats.dodge_chance)]

\* the loop of process_pvp_attack is entered: lines 1538-1544
InitPvp ==
  /\ Init!1 /\ Init!2 /\ Init!3 /\ Init!4 /\ Init!5 /\ Init!6 /\ Init!7 /\ Init!8 /\ Init!10 /\ Init!11
  /\ \E player_stats \in CombatStats, opponent_stats \in CombatStats :
       call = [fn |-> "process_pvp_attack", pc |-> "while",
               stats |-> player_stats, monster |-> opponent_stats,
               s |-> [player_hp |-> player_stats.health,
                      monster_hp |-> opponent_stats.health, rounds |-> 0],
               crit |-> FALSE, dodge |-> FALSE,
               opponent_crit |-> FALSE, opponent_dodge |-> FALSE]

\* one pass through the loop of lines 1546-1580
PvpWhileBody(draws) ==
  /\ call.fn = "process_pvp_attack"
  /\ call.pc = "while"
  /\ BattleRuns(call.s)
  /\ draws \in PvpDraws(call.stats, call.monster)
  /\ call' = [call EXCEPT !.s = PvpRound(call.stats, call.monster, call.s, draws),
                          !.crit = draws.crit,
                          !.dodge = draws.dodge,
                          !.opponent_crit = draws.opponent_crit,
                          !.opponent_dodge = draws.opponent_dodge]
  /\ UNCHANGED <<now, player, inventory, fsm, monster_id, progress, last, lost, player_pets, keyboards>>

\* the loop is left: line 1582
PvpVictory ==
  /\ call.fn = "process_pvp_attack"
  /\ call.pc = "while"
  /\ ~BattleRuns(call.s)
  /\ call' = [call EXCEPT !.pc = "returned"]
  /\ UNCHANGED <<now, player, inventory, fsm, monster_id, progress, last, lost, player_pets, keyboards>>

\* the loop is left and the result dict is returned: lines 581-588
ReturnResult ==
  /\ call.fn = "battle_calculation"
  /\ call.pc = "while"
  /\ ~BattleRuns(call.s)
  /\ call' = [fn |-> "battle_calculation", pc |-> "returned",
              stats |-> call.stats, monster |-> call.monster, s |-> call.s,
              crit |-> call.crit, dodge |-> call.dodge, lucky |-> call.lucky,
              result |-> [victory |-> call.s.player_hp > 0,
                          remaining_hp |-> call.s.player_hp,
                          rounds |-> call.s.rounds]]
  /\ UNCHANGED <<now, player, inventory, fsm, monster_id, progress, last, lost, player_pets, keyboards>>

\* ------------------------------------------------------------ companion battle
\* rows of pet_abilities, with the JSON dict of the column effect
PetAbilities ==
  [aura |-> [type |-> "passive", effect |-> [damage |-> 5], cooldown |-> 0,
             required_evolution |-> 1],
   bite |-> [type |-> "combat", effect |-> [damage |-> 15], cooldown |-> 2,
             required_evolution |-> 1],
   lick |-> [type |-> "combat", effect |-> [heal |-> 30], cooldown |-> 3,
             required_evolution |-> 1],
   roar |-> [type |-> "combat", effect |-> [damage |-> 50, heal |-> 5], cooldown |-> 1,
             required_evolution |-> 2]]

\* active player_pets rows with the columns of their pets row that the battle
\* reads and the ids of pet.abilities; bonus_stats is the default {}
Companions ==
  [dragon |-> [level |-> 3, base_damage |-> 20, base_defense |-> 10, base_health |-> 100,
               evolution_level |-> 2, abilities |-> {"bite", "roar"}],
   wolf   |-> [level |-> 1, base_damage |-> 10, base_defense |-> 5, base_health |-> 50,
               evolution_level |-> 1, abilities |-> {"aura", "bite", "lick", "roar"}]]

\* .first() of line 2435 found no active row
NoCompanion == ""

\* PlayerPet.get_total_stats: int(base * (1 + (level - 1) * 0.1))
PlayerPet_get_total_stats(c) ==
  [damage  |-> (c.base_damage * (9 + c.level)) \div 10,
   defense |-> (c.base_defense * (9 + c.level)) \div 10,
   health  |-> (c.base_health * (9 + c.level)) \div 10]

RECURSIVE SumEffects(_, _)
\* what the abilities S add to the key stat in the loop of lines 2381-2385
SumEffects(S, stat) ==
  IF S = {} THEN 0
  ELSE LET a == CHOOSE x \in S : TRUE
       IN (IF stat \in DOMAIN PetAbilities[a].effect THEN PetAbilities[a].effect[stat] ELSE 0)
          + SumEffects(S \ {a}, stat)

\* DungeonPetEffect.apply_passive_effects; defense and the chances in tenths
apply_passive_effects(c, player_stats) ==
  LET pet_stats == PlayerPet_get_total_stats(c)
      based     == [player_stats EXCEPT !.damage  = @ + pet_stats.damage \div 5,
                                        !.defense = @ + 10 * (pet_stats.defense \div 5),
                                        !.health  = @ + pet_stats.health \div 5]
      passive   == {a \in c.abilities :
                      /\ PetAbilities[a].type = "passive"
                      /\ PetAbilities[a].required_evolution <= c.evolution_level}
      tenths    == {"defense", "critical_chance", "dodge_chance"}
  IN [stat \in DOMAIN based |->
        based[stat] + (IF stat \in tenths THEN 10 ELSE 1) * SumEffects(passive, stat)]

\* ability_cooldowns.get(ability.id, 0)
CooldownOf(cooldowns, a) == IF a \in DOMAIN cooldowns THEN cooldowns[a] ELSE 0

\* the list of lines 2391-2396 without the test of the counter
available_abilities_any(c, cooldowns) ==
  {a \in c.abilities :
     /\ PetAbilities[a].type = "combat"
     /\ PetAbilities[a].required_evolution <= c.evolution_level}

\* the list of lines 2391-2396
available_abilities(c, cooldowns) ==
  {a \in c.abilities :
     /\ PetAbilities[a].type = "combat"
     /\ PetAbilities[a].required_evolution <= c.evolution_level
     /\ CooldownOf(cooldowns, a) <= 0}

\* DungeonPetEffect.use_combat_ability when random.choice picks a, or "" when
\* the list is empty: the counters, the battle state and whether a text is
\* returned
use_combat_ability(cooldowns, s, player_max_hp, a) ==
  IF a = ""
  THEN [cooldowns |-> cooldowns, s |-> s, pet_action |-> << >>]
  ELSE LET effect == PetAbilities[a].effect
           healed == s.player_hp + effect["heal"]
       IN [cooldowns  |-> [x \in DOMAIN cooldowns \cup {a} |->
                             IF x = a THEN PetAbilities[a].cooldown ELSE cooldowns[x]],
           s          |-> [s EXCEPT
                             !.monster_hp = IF "damage" \in DOMAIN effect
                                            THEN @ - effect["damage"] ELSE @,
                             !.player_hp  = IF "heal" \in DOMAIN effect
                                            THEN (IF healed < player_max_hp THEN healed
                                                  ELSE player_max_hp)
                                            ELSE @],
           pet_action |-> << <<a, 0>> >>]

\* DungeonPetEffect.update_cooldowns
update_cooldowns(cooldowns) ==
  [x \in DOMAIN cooldowns |-> Max(0, cooldowns[x] - 1)]

\* one pass through the loop of dungeon_battle in which the companion acts
\* whether or not the monster is above 0
DungeonRoundEager(stats, monster, pet, st, crit, a, dodge) ==
  LET base           == Max(1, stats.damage - (monster.defense \div 2))
      player_damage  == IF crit THEN base * 2 ELSE base
      hit            == [st.s EXCEPT !.monster_hp = @ - player_damage]
      used           == IF pet # NoCompanion
                        THEN use_combat_ability(st.cooldowns, hit, st.player_max_hp, a)
                        ELSE [cooldowns |-> st.cooldowns, s |-> hit, pet_action |-> << >>]
      monster_damage == Max(1, monster.damage - (stats.defense \div 20))
      alive          == used.s.monster_hp > 0
      struck         == [used.s EXCEPT !.player_hp = IF alive /\ ~dodge
                                                     THEN @ - monster_damage ELSE @,
                                       !.rounds = @ + 1]
  IN [s             |-> struck,
      player_max_hp |-> st.player_max_hp,
      cooldowns     |-> IF pet # NoCompanion THEN update_cooldowns(used.cooldowns)
                        ELSE used.cooldowns,
      pass          |-> << <<IF crit THEN "crit" ELSE "hit", player_damage>> >>
                        \o used.pet_action
                        \o (IF ~alive THEN << >>
                            ELSE IF dodge THEN << <<"dodge", 0>> >>
                            ELSE << <<"strike", monster_damage>> >>)]

\* one pass through the loop of dungeon_battle, lines 2456-2491: st holds the
\* battle state with rounds, player_max_hp and the counters of pet_effect; a is
\* the ability random.choice picks, "" when none is used; pass is what the pass
\* appends to battle_log
DungeonRound(stats, monster, pet, st, crit, a, dodge) ==
  LET base           == Max(1, stats.damage - (monster.defense \div 2))
      player_damage  == IF crit THEN base * 2 ELSE base
      hit            == [st.s EXCEPT !.monster_hp = @ - player_damage]
      used           == IF pet # NoCompanion /\ hit.monster_hp > 0
                        THEN use_combat_ability(st.cooldowns, hit, st.player_max_hp, a)
                        ELSE [cooldowns |-> st.cooldowns, s |-> hit, pet_action |-> << >>]
      monster_damage == Max(1, monster.damage - (stats.defense \div 20))
      alive          == used.s.monster_hp > 0
      struck         == [used.s EXCEPT !.player_hp = IF alive /\ ~dodge
                                                     THEN @ - monster_damage ELSE @,
                                       !.rounds = @ + 1]
  IN [s             |-> struck,
      player_max_hp |-> st.player_max_hp,
      cooldowns     |-> IF pet # NoCompanion THEN update_cooldowns(used.cooldowns)
                        ELSE used.cooldowns,
      pass          |-> << <<IF crit THEN "crit" ELSE "hit", player_damage>> >>
                        \o used.pet_action
                        \o (IF ~alive THEN << >>
                            ELSE IF dodge THEN << <<"dodge", 0>> >>
                            ELSE << <<"strike", monster_damage>> >>)]

\* the abilities random.choice of line 2402 can return if use_combat_ability
\* is called in the pass, "" when it would find none
AbilityChoices(pet, st) ==
  LET list == IF pet # NoCompanion
              THEN available_abilities(Companions[pet], st.cooldowns) ELSE {}
  IN IF list = {} THEN {""} ELSE list

\* dungeon_battle is called: lines 2430-2454; used_at tells the pass in which
\* an ability was last used
InitDungeonBattle ==
  /\ Init!1 /\ Init!2 /\ Init!3 /\ Init!4 /\ Init!5 /\ Init!6 /\ Init!7 /\ Init!8 /\ Init!10 /\ Init!11
  /\ \E stats \in CombatStats, monster \in CombatMonsters,
        pet \in DOMAIN Companions \cup {NoCompanion} :
       LET player_stats == IF pet # NoCompanion
                           THEN apply_passive_effects(Companions[pet], stats) ELSE stats
       IN call = [fn |-> "dungeon_battle", pc |-> "while",
                  stats |-> player_stats, monster |-> monster, pet |-> pet,
                  st |-> [s |-> [player_hp |-> player_stats.health,
                                 monster_hp |-> monster.health, rounds |-> 0],
                          player_max_hp |-> player_stats.health,
                          cooldowns |-> << >>, pass |-> << >>],
                  used_at |-> << >>]

\* one pass through the loop of lines 2456-2491, with the draws of lines 2459
\* and 2479 and the choice of line 2402
DungeonWhileBody(crit, a, dodge) ==
  /\ call.fn = "dungeon_battle"
  /\ call.pc = "while"
  /\ BattleRuns(call.st.s)
  /\ crit \in Draws(call.stats.critical_chance)
  /\ dodge \in Draws(call.stats.dodge_chance)
  /\ a \in AbilityChoices(call.pet, call.st)
  /\ LET after == DungeonRound(call.stats, call.monster, call.pet, call.st, crit, a, dodge)
         used  == \E k \in 1 .. Len(after.pass) : after.pass[k] = <<a, 0>>
     IN call' = [call EXCEPT
                   !.st = after,
                   !.used_at = IF ~used THEN @
                               ELSE [x \in DOMAIN @ \cup {a} |->
                                       IF x = a THEN call.st.s.rounds ELSE @[x]]]
  /\ UNCHANGED <<now, player, inventory, fsm, monster_id, progress, last, lost, player_pets, keyboards>>

\* the loop is left and the result dict is returned: lines 2493-2500
DungeonReturn ==
  /\ call.fn = "dungeon_battle"
  /\ call.pc = "while"
  /\ ~BattleRuns(call.st.s)
  /\ call' = [fn |-> "dungeon_battle", pc |-> "returned",
              stats |-> call.stats, monster |-> call.monster, pet |-> call.pet,
              st |-> call.st, used_at |-> call.used_at,
              result |-> [victory |-> call.st.s.player_hp > 0,
                          remaining_hp |-> call.st.s.player_hp,
                          rounds |-> call.st.s.rounds]]
  /\ UNCHANGED <<now, player, inventory, fsm, monster_id, progress, last, lost, player_pets, keyboards>>

\* ------------------------------------------------------------ replayed battle
\* a draw whose outcome depends on the time it is taken at
DrawnByClock(r, chance) == (r + now) % 1000 < chance

\* random.random() < chance / 100 for the value r of random.random(), r in
\* thousandths and chance in tenths of a percent
Drawn(r, chance) == r < chance

\* one pass through the loop of lines 558-579 for a call that takes its draws
\* from a tape: the draw of line 561, and the draw of line 572 if the monster
\* is above 0 after the player's hit; the log gets what lines 564-577 append
TapedPass(stats, monster, run, tape) ==
  LET crit   == Drawn(tape[run.cursor + 1], stats.critical_chance)
      struck == BattleRound(stats, monster, run.s, crit, FALSE).monster_hp > 0
      dodge  == struck /\ Drawn(tape[run.cursor + 2], stats.dodge_chance)
      after  == BattleRound(stats, monster, run.s, crit, dodge)
  IN [pc     |-> "while",
      s      |-> after,
      cursor |-> run.cursor + (IF struck THEN 2 ELSE 1),
      log    |-> run.log
                 \o << <<IF crit THEN "crit" ELSE "hit", run.s.monster_hp - after.monster_hp>> >>
                 \o (IF ~struck THEN << >>
                     ELSE IF dodge THEN << <<"dodge", 0>> >>
                     ELSE << <<"strike", run.s.player_hp - after.player_hp>> >>)]

\* the draws a pass takes are on the tape
TapeLasts(stats, monster, run, tape) ==
  /\ run.cursor + 1 <= Len(tape)
  /\ BattleRound(stats, monster, run.s,
                 Drawn(tape[run.cursor + 1], stats.critical_chance), FALSE).monster_hp > 0
     => run.cursor + 2 <= Len(tape)

\* the same stat block, monster and tape for two calls of battle_calculation
InitReplay ==
  /\ Init!1 /\ Init!2 /\ Init!3 /\ Init!4 /\ Init!5 /\ Init!6 /\ Init!7 /\ Init!8 /\ Init!10 /\ Init!11
  /\ \E m \in {"rat", "ogre"}, tape \in [1 .. TapeLen -> DrawValues] :
       call = [fn |-> "replay", stats |-> get_total_stats(NewPlayer, 0),
               monster |-> Monsters[m], tape |-> tape,
               run |-> [which \in {"first", "second"} |-> [pc |-> "idle"]]]

\* battle_calculation is called: lines 551-556; the second call comes after
\* the first has returned
ReplayCall(which) ==
  /\ call.fn = "replay"
  /\ call.run[which].pc = "idle"
  /\ which = "second" => call.run["first"].pc = "returned"
  /\ call' = [call EXCEPT !.run[which] =
                [pc |-> "while", cursor |-> 0, log |-> << >>,
                 s |-> [player_hp |-> call.stats.health,
                        monster_hp |-> call.monster.health, rounds |-> 0]]]
  /\ UNCHANGED <<now, player, inventory, fsm, monster_id, progress, last, lost, player_pets, keyboards>>

\* one pass through the loop
ReplayPass(which) ==
  /\ call.fn = "replay"
  /\ call.run[which].pc = "while"
  /\ BattleRuns(call.run[which].s)
  /\ TapeLasts(call.stats, call.monster, call.run[which], call.tape)
  /\ call' = [call EXCEPT !.run[which] =
                TapedPass(call.stats, call.monster, call.run[which], call.tape)]
  /\ UNCHANGED <<now, player, inventory, fsm, monster_id, progress, last, lost, player_pets, keyboards>>

\* the result dict is returned: lines 581-588
ReplayReturn(which) ==
  /\ call.fn = "replay"
  /\ call.run[which].pc = "while"
  /\ ~BattleRuns(call.run[which].s)
  /\ call' = [call EXCEPT !.run[which] =
                [pc |-> "returned",
                 result |-> [victory      |-> call.run[which].s.player_hp > 0,
                             remaining_hp |-> call.run[which].s.player_hp,
                             battle_log   |-> call.run[which].log,
                             rounds       |-> call.run[which].s.rounds]]]
  /\ UNCHANGED <<now, player, inventory, fsm, monster_id, progress, last, lost, player_pets, keyboards>>

\* ------------------------------------------------------------ the two monster loops
\* the battle state of a run of dungeon_battle without a companion
Companionless(stats, run) ==
  [s |-> run.s, player_max_hp |-> stats.health, cooldowns |-> << >>, pass |-> << >>]

\* a pass of dungeon_battle that takes the draw of line 2479 before that of
\* line 2459
DungeonTapedPassDodgeFirst(stats, monster, run, tape) ==
  LET st     == Companionless(stats, run)
      crit   == Drawn(tape[IF run.cursor + 2 <= Len(tape) THEN run.cursor + 2
                           ELSE run.cursor + 1], stats.critical_chance)
      struck == DungeonRound(stats, monster, NoCompanion, st, crit, "", FALSE).s.monster_hp > 0
      dodge  == struck /\ Drawn(tape[run.cursor + 1], stats.dodge_chance)
      after  == DungeonRound(stats, monster, NoCompanion, st, crit, "", dodge)
  IN [pc     |-> "while",
      s      |-> after.s,
      cursor |-> run.cursor + (IF struck THEN 2 ELSE 1),
      log    |-> run.log \o after.pass]

\* one pass through the loop of lines 2456-2491 for a player without an active
\* companion whose draws come from a tape: the draw of line 2459, and the draw
\* of line 2479 if the monster is above 0 after the player's hit
DungeonTapedPass(stats, monster, run, tape) ==
  LET st     == Companionless(stats, run)
      crit   == Drawn(tape[run.cursor + 1], stats.critical_chance)
      struck == DungeonRound(stats, monster, NoCompanion, st, crit, "", FALSE).s.monster_hp > 0
      dodge  == struck /\ Drawn(tape[run.cursor + 2], stats.dodge_chance)
      after  == DungeonRound(stats, monster, NoCompanion, st, crit, "", dodge)
  IN [pc     |-> "while",
      s      |-> after.s,
      cursor |-> run.cursor + (IF struck THEN 2 ELSE 1),
      log    |-> run.log \o after.pass]

\* the draws a pass of dungeon_battle takes are on the tape
DungeonTapeLasts(stats, monster, run, tape) ==
  /\ run.cursor + 1 <= Len(tape)
  /\ DungeonRound(stats, monster, NoCompanion, Companionless(stats, run),
                  Drawn(tape[run.cursor + 1], stats.critical_chance), "", FALSE).s.monster_hp > 0
     => run.cursor + 2 <= Len(tape)

\* the two functions that fight a monster
MonsterLoops == {"battle_calculation", "dungeon_battle"}

\* the same stat block, monster and tape for a call of battle_calculation and
\* a call of dungeon_battle by a player without an active companion
InitTwin ==
  /\ Init!1 /\ Init!2 /\ Init!3 /\ Init!4 /\ Init!5 /\ Init!6 /\ Init!7 /\ Init!8 /\ Init!10 /\ Init!11
  /\ \E m \in {"rat", "ogre"}, tape \in [1 .. TapeLen -> DrawValues] :
       call = [fn |-> "twin", stats |-> get_total_stats(NewPlayer, 0),
               monster |-> Monsters[m], tape |-> tape,
               run |-> [which \in MonsterLoops |-> [pc |-> "idle"]]]

\* the function is called: lines 551-556 and 2430-2454
TwinCall(which) ==
  /\ call.fn = "twin"
  /\ call.run[which].pc = "idle"
  /\ call' = [call EXCEPT !.run[which] =
                [pc |-> "while", cursor |-> 0, log |-> << >>,
                 s |-> [player_hp |-> call.stats.health,
                        monster_hp |-> call.monster.health, rounds |-> 0]]]
  /\ UNCHANGED <<now, player, inventory, fsm, monster_id, progress, last, lost, player_pets, keyboards>>

\* one pass through the loop of the function
TwinPass(which) ==
  /\ call.fn = "twin"
  /\ call.run[which].pc = "while"
  /\ BattleRuns(call.run[which].s)
  /\ IF which = "battle_calculation"
     THEN /\ TapeLasts(call.stats, call.monster, call.run[which], call.tape)
          /\ call' = [call EXCEPT !.run[which] =
                        TapedPass(call.stats, call.monster, call.run[which], call.tape)]
     ELSE /\ DungeonTapeLasts(call.stats, call.monster, call.run[which], call.tape)
          /\ call' = [call EXCEPT !.run[which] =
                        DungeonTapedPass(call.stats, call.monster, call.run[which], call.tape)]
  /\ UNCHANGED <<now, player, inventory, fsm, monster_id, progress, last, lost, player_pets, keyboards>>

\* the result dict is returned: lines 581-588 and 2493-2500
TwinReturn(which) ==
  /\ call.fn = "twin"
  /\ call.run[which].pc = "while"
  /\ ~BattleRuns(call.run[which].s)
  /\ call' = [call EXCEPT !.run[which] =
                [pc |-> "returned",
                 result |-> [victory      |-> call.run[which].s.player_hp > 0,
                             remaining_hp |-> call.run[which].s.player_hp,
                             battle_log   |-> call.run[which].log,
                             rounds       |-> call.run[which].s.rounds]]]
  /\ UNCHANGED <<now, player, inventory, fsm, monster_id, progress, last, lost, player_pets, keyboards>>

\* ------------------------------------------------------------ completion record
\* lines 899-902 on a dungeon_progress row, elapsed_time in tenths of a second:
\* "not progress.best_time" is true of None and of 0
RecordCompletion(row, elapsed_time) ==
  [row EXCEPT !.completed_times = @ + 1,
              !.best_time = IF \/ row.best_time = None
                               \/ row.best_time = 0
                               \/ elapsed_time < row.best_time * 10
                            THEN elapsed_time \div 10
                            ELSE @]

\* the row of a pair before its first completion, and no elapsed time yet
InitCompletions ==
  /\ Init!1 /\ Init!2 /\ Init!3 /\ Init!4 /\ Init!5 /\ Init!6 /\ Init!7 /\ Init!8 /\ Init!10 /\ Init!11
  /\ call = [fn |-> "completion", row |-> [NoProgress EXCEPT !.exists = TRUE],
             times |-> << >>]

\* one more completion of the pair, after elapsed_time
CompleteRun(elapsed_time) ==
  /\ call.fn = "completion"
  /\ Len(call.times) < MaxRuns
  /\ call' = [call EXCEPT !.row = RecordCompletion(@, elapsed_time),
                          !.times = Append(@, elapsed_time)]
  /\ UNCHANGED <<now, player, inventory, fsm, monster_id, progress, last, lost, player_pets, keyboards>>

\* ------------------------------------------------------------ stat aggregation
\* the item ids in the six slots of the player's equipment row that are not
\* NULL, in the order of line 264; "gone" is an id without an items row
EquipmentDraws ==
  {<< >>, <<"sword">>, <<"sword", "shield">>, <<"gone", "shield">>,
   <<"sword", "shield", "sword", "shield", "potion", "sword">>}

\* player_buffs rows of the player: stat_bonuses and expires_at; "luck" is no
\* key of total_stats
BuffDraws ==
  {[stat_bonuses |-> [strength |-> 4, damage |-> 6, luck |-> 9], expires_at |-> 1800],
   [stat_bonuses |-> [defense |-> 2, critical_chance |-> 5, dodge_chance |-> 1,
                      health |-> 7],
    expires_at |-> 3600],
   [stat_bonuses |-> [agility |-> 1, intelligence |-> 1, vitality |-> 1, energy |-> 8],
    expires_at |-> 1800],
   [stat_bonuses |-> << >>, expires_at |-> 3600]}

\* an aggregation that deletes the buffs it finds expired
SelfPurged(p, t) ==
  [p EXCEPT !.buffs = SelectSeq(@, LAMBDA buff : buff.expires_at > t)]

\* the rows get_total_stats has read, after it: lines 247-290 assign to the
\* local total_stats only, and the session has nothing to flush
SelfAfter(p, t) == p

\* a player with equipment and buffs, before a call of get_total_stats
InitStats ==
  /\ Init!1 /\ Init!3 /\ Init!4 /\ Init!5 /\ Init!6 /\ Init!7 /\ Init!8 /\ Init!10 /\ Init!11
  /\ \E equipment \in EquipmentDraws, first \in BuffDraws, second \in BuffDraws,
        n \in 0 .. 2 :
       player = [NewPlayer EXCEPT !.equipment = equipment,
                                  !.buffs = SubSeq(<<first, second>>, 1, n)]
  /\ call = [fn |-> "get_total_stats", pc |-> "idle"]

\* player.get_total_stats(session) is called and returns: lines 247-290
TotalStats ==
  /\ call.fn = "get_total_stats"
  /\ call' = [fn |-> "get_total_stats", pc |-> "returned", self |-> player, at |-> now,
              total_stats |-> get_total_stats(player, now)]
  /\ player' = SelfAfter(player, now)
  /\ UNCHANGED <<now, inventory, fsm, monster_id, progress, last, lost, player_pets, keyboards>>

\* ------------------------------------------------------------ settlement
\* monsters rows whose drop tables hold entries that always drop, that never
\* drop and that may drop; "gone" is an id without an items row
RewardMonsters ==
  {[Monsters["rat"] EXCEPT !.drop_table = [potion |-> 100, sword |-> 100]],
   [Monsters["rat"] EXCEPT !.drop_table = [potion |-> 0, shield |-> 100]],
   [Monsters["rat"] EXCEPT !.drop_table = [potion |-> 50, sword |-> 50]],
   [Monsters["reaper"] EXCEPT !.drop_table = [gone |-> 100, potion |-> 0]]}

\* a player before its first kill; kills counts the settlements made
InitRewards ==
  /\ Init!1 /\ Init!2 /\ Init!3 /\ Init!4 /\ Init!5 /\ Init!6 /\ Init!7 /\ Init!8 /\ Init!10 /\ Init!11
  /\ call = [fn |-> "process_battle_rewards", pc |-> "idle", kills |-> 0]

\* process_battle_rewards(player, monster, session) is called and returns:
\* lines 590-619
SettleKill(monster) ==
  /\ call.fn = "process_battle_rewards"
  /\ call.kills < MaxKills
  /\ \E w \in process_battle_rewards(player, inventory, monster) :
       /\ player' = w.player
       /\ inventory' = w.inventory
       /\ call' = [fn |-> "process_battle_rewards", pc |-> "returned",
                   kills |-> call.kills + 1, monster |-> monster,
                   rewards |-> [experience |-> w.experience, batons |-> w.batons,
                                level_up |-> w.level_up,
                                dropped_items |-> w.dropped_items]]
  /\ UNCHANGED <<now, fsm, monster_id, progress, last, lost, player_pets, keyboards>>

\* ------------------------------------------------------------ progression
\* the amounts of experience granted, besides the threshold of the level
GrantDraws == {0, 1, 99, 100, 182, 500}

\* a new player and one new companion, before any grant; grants counts the
\* calls made
InitLedger ==
  /\ Init!1 /\ Init!2 /\ Init!3 /\ Init!4 /\ Init!5 /\ Init!6 /\ Init!7 /\ Init!8
  /\ player_pets = <<NewPlayerPet("wolf", TRUE, 0)>>
  /\ Init!11
  /\ call = [fn |-> "", pc |-> "idle", grants |-> 0]

\* player.add_experience(amount) is called and returns: lines 322-338
GrantPlayer(amount) ==
  /\ call.pc \in {"idle", "returned"}
  /\ call.grants < MaxGrants
  /\ player' = add_experience(player, amount).player
  /\ call' = [fn |-> "Player.add_experience", pc |-> "returned",
              grants |-> call.grants + 1, amount |-> amount,
              level_up |-> add_experience(player, amount).level_up]
  /\ UNCHANGED <<now, inventory, fsm, monster_id, progress, last, lost, player_pets, keyboards>>

\* player_pet.add_experience(amount) is called and returns: lines 1889-1898
GrantPet(amount) ==
  /\ call.pc \in {"idle", "returned"}
  /\ call.grants < MaxGrants
  /\ player_pets' = <<PlayerPet_add_experience(player_pets[1], amount).row>>
  /\ call' = [fn |-> "PlayerPet.add_experience", pc |-> "returned",
              grants |-> call.grants + 1, amount |-> amount,
              level_up |-> PlayerPet_add_experience(player_pets[1], amount).level_up]
  /\ UNCHANGED <<now, player, inventory, fsm, monster_id, progress, last, lost, keyboards>>

\* ------------------------------------------------------------ specifications
\* the pet handlers and the battle handlers, one request at a time
NextPets ==
  \/ show_pets
  \/ \E pet_id \in PetIds : process_starter_pet_choice(pet_id)
  \/ \E id \in 1 .. MaxPets : toggle_pet(id)
  \/ \E pet_id \in PetIds : buy_pet(pet_id, PetPrice(pet_id))
  \/ \E m \in PetFoes : handle_battle(m)
  \/ \E data \in {"battle_flee", "battle_attack"} : process_battle_action(data)

SpecPets == Init /\ [][NextPets]_vars

\* settlements of kills for one player
\* the care of a companion: the pet handlers and
\* process_dungeon_rewards called for a dungeon d on the rows as they are;
\* call holds the session's objects when the function is left
RewardRun(d) ==
  /\ player_pets # << >>
  /\ \E w \in process_dungeon_rewards(player, player_pets, d) :
       call' = [fn |-> "process_dungeon_rewards",
                player_pets |-> w.player_pets, raised |-> w.raised]
  /\ last' = Did("", "", "", << >>, 0, "", FALSE)
  /\ UNCHANGED <<now, player, inventory, fsm, monster_id, progress, lost, player_pets, keyboards>>

\* a player who chose the wolf MaxTime seconds ago, was shown the list and
\* has CarePurse batons left; the requests follow each other at once
InitCare ==
  /\ now = MaxTime
  /\ Init!3 /\ Init!4 /\ Init!5 /\ Init!6 /\ Init!7 /\ Init!8 /\ Init!9
  /\ player = [NewPlayer EXCEPT !.batons = CarePurse]
  /\ player_pets = <<NewPlayerPet("wolf", TRUE, 0)>>
  /\ keyboards = [NoKeyboards EXCEPT !.toggle = {1}]

NextCare ==
  \/ show_pets
  \/ \E id \in 1 .. MaxPets : feed_pet(id)
  \/ \E d \in DungeonIds : RewardRun(d)

SpecCare == InitCare /\ [][NextCare]_vars

\* the energy a player starts the requests that cost energy with
EnergyLevels == {5, 10, 25, 100}

\* the dungeon ids of the entry requests that are followed
EnergyDungeons == {"keep", "nowhere"}

\* a new player or a player of the arena, with an opponent of the arena
InitEnergy ==
  /\ Init!1 /\ Init!3 /\ Init!4 /\ Init!5 /\ Init!6 /\ Init!7 /\ Init!8 /\ Init!10 /\ Init!11
  /\ \E p \in {NewPlayer, ArenaPlayer}, energy \in EnergyLevels :
       player = [p EXCEPT !.energy = energy]
  /\ call = [fn |-> "pvp_arena", pc |-> "idle", opponent |-> ArenaPlayer, bouts |-> 0]

\* player.regenerate_energy() is called on the row and saved
RegenerateEnergy ==
  /\ player' = regenerate_energy(player, now)
  /\ player' # player
  /\ last' = Did("", "", "regenerated", << >>, 0, "", TRUE)
  /\ UNCHANGED <<now, inventory, fsm, monster_id, progress, lost, call, player_pets, keyboards>>

\* every request that costs energy, and the clock
NextEnergy ==
  \/ \E d \in TickSteps : Tick(d)
  \/ RegenerateEnergy
  \/ \E m \in PetFoes : handle_battle(m)
  \/ \E data \in {"battle_flee", "battle_attack"} : process_battle_action(data)
  \/ show_dungeons
  \/ \E d \in EnergyDungeons : process_dungeon_selection(d)
  \/ show_crafting
  \/ \E recipe_id \in RecipeIds : create_item(recipe_id)
  \/ show_pvp_arena
  \/ \E victory \in BOOLEAN, reward_batons \in RewardBatonDraws, reward_exp \in RewardExpDraws :
       process_pvp_attack(victory, reward_batons, reward_exp)

SpecEnergy == InitEnergy /\ [][NextEnergy]_vars

\* the arena
NextArena ==
  \/ show_pvp_arena
  \/ \E victory \in BOOLEAN, reward_batons \in RewardBatonDraws, reward_exp \in RewardExpDraws :
       process_pvp_attack(victory, reward_batons, reward_exp)
  \/ \E victory \in BOOLEAN, reward_batons \in RewardBatonDraws, reward_exp \in RewardExpDraws :
       PvpAttacked(victory, reward_batons, reward_exp)

SpecArena == InitArena /\ [][NextArena]_vars

\* the workshop
NextCraft ==
  \/ show_crafting
  \/ \E recipe_id \in RecipeIds : create_item(recipe_id)

SpecCraft == InitCraft /\ [][NextCraft]_vars

NextRewards == \E monster \in RewardMonsters : SettleKill(monster)

SpecRewards == InitRewards /\ [][NextRewards]_vars

\* grants of experience to one player and to one companion
NextLedger ==
  \/ \E amount \in GrantDraws \cup {get_next_level_exp(player.level)} : GrantPlayer(amount)
  \/ \E amount \in GrantDraws \cup {get_next_level_exp(player_pets[1].level)} :
       GrantPet(amount)

SpecLedger == InitLedger /\ [][NextLedger]_vars

\* calls of get_total_stats for one player, the clock moving on meanwhile
NextStats ==
  \/ \E d \in TickSteps : Tick(d)
  \/ TotalStats

SpecStats == InitStats /\ [][NextStats]_vars

\* one call of battle_calculation, or one run of the loop of
\* process_pvp_attack, pass by pass
NextCombat ==
  \/ \E crit \in BOOLEAN, dodge \in BOOLEAN : WhileBody(crit, dodge)
  \/ ReturnResult
  \/ \E draws \in [crit : BOOLEAN, opponent_dodge : BOOLEAN,
                    opponent_crit : BOOLEAN, dodge : BOOLEAN] : PvpWhileBody(draws)
  \/ PvpVictory

SpecCombat == (InitCombat \/ InitPvp) /\ [][NextCombat]_vars

\* the three combat loops: battle_calculation, the loop of process_pvp_attack
\* and dungeon_battle with and without a companion
NextLoops ==
  \/ NextCombat
  \/ \E crit \in BOOLEAN, a \in DOMAIN PetAbilities \cup {""}, dodge \in BOOLEAN :
       DungeonWhileBody(crit, a, dodge)
  \/ DungeonReturn

SpecLoops == (InitCombat \/ InitPvp \/ InitDungeonBattle) /\ [][NextLoops]_vars

\* the interpreter goes on with a call that can go on
SpecCombatFair == SpecCombat /\ WF_vars(NextCombat)

\* two calls of battle_calculation on the same arguments and draws, the
\* clock moving on meanwhile
NextReplay ==
  \/ \E d \in TickSteps : Tick(d)
  \/ \E which \in {"first", "second"} : ReplayCall(which)
  \/ \E which \in {"first", "second"} : ReplayPass(which)
  \/ \E which \in {"first", "second"} : ReplayReturn(which)

SpecReplay == InitReplay /\ [][NextReplay]_vars

\* battle_calculation and dungeon_battle on the same arguments and draws
NextTwin ==
  \/ \E which \in MonsterLoops : TwinCall(which)
  \/ \E which \in MonsterLoops : TwinPass(which)
  \/ \E which \in MonsterLoops : TwinReturn(which)

SpecTwin == InitTwin /\ [][NextTwin]_vars

\* the completions of one pair, one after the other
NextCompletions == \E e \in ElapsedDraws : CompleteRun(e)

SpecCompletions == InitCompletions /\ [][NextCompletions]_vars

\* the battle handlers, one request at a time
NextBattle ==
  \/ \E m \in MonsterIds : handle_battle(m)
  \/ \E data \in {"battle_flee", "battle_attack"} : process_battle_action(data)

SpecBattle == Init /\ [][NextBattle]_vars

\* the dungeon handlers and the clock, one request at a time
NextDungeon ==
  \/ \E d \in TickSteps : Tick(d)
  \/ show_dungeons
  \/ \E d \in SelectionData : process_dungeon_selection(d)
  \/ \E d \in RequestIds : process_dungeon_room(d)

SpecDungeon == Init /\ [][NextDungeon]_vars

\* ------------------------------------------------------------ properties
\* the step is a request handled by `handler` for dungeon d
Handled(handler, d) == last'.handler = handler /\ last'.dungeon = d

\* the monsters of the room the run of dungeon d stands in
CurrentRoom(d) == RoomMonsters(Dungeons[d].monster_groups[progress[d].current_room + 1])

\* C1: a battle of process_battle_action that ends on the round limit with
\* both sides above 0 is a draw: it is not a victory, and the player gets no
\* experience, no batons and no items for it
C1_DrawIsNoVictory ==
  [][ (/\ last'.handler = "process_battle_action"
       /\ last'.fights # << >>
       /\ last'.fights[1].timed_out)
      => /\ ~last'.fights[1].victory
         /\ last'.reply # "victory"
         /\ player'.experience = player.experience
         /\ player'.batons = player.batons
         /\ inventory' = inventory ]_vars

\* C2: in a room of two or more monsters every fight after the first starts
\* with the health the fight before it returned
C2_HealthCarriedForward ==
  [][ \A d \in DungeonIds :
        (Handled("process_dungeon_room", d) /\ last'.fights # << >>)
        => \A i \in 2 .. Len(last'.fights) :
             i <= Len(CurrentRoom(d)) =>
             last'.fights[i].start_hp = last'.fights[i - 1].remaining_hp ]_vars

\* C3: an entry succeeds exactly when there is no earlier attempt or
\* now >= last_attempt + cooldown, and energy >= energy_cost; a successful
\* entry takes energy_cost from the energy, sets last_attempt to now and
\* starts the run at room 0 with no monster defeated
C3_EntryExactlyWhenAllowed ==
  [][ \A d \in DungeonIds :
        Handled("process_dungeon_selection", d)
        => LET rested  == \/ progress[d].last_attempt = None
                          \/ now >= progress[d].last_attempt + Dungeons[d].cooldown * 3600
               allowed == rested /\ player.energy >= Dungeons[d].energy_cost
           IN /\ (last'.reply = "entered") <=> allowed
              /\ allowed => /\ player'.energy = player.energy - Dungeons[d].energy_cost
                            /\ progress'[d].last_attempt = now
                            /\ progress'[d].active
                            /\ progress'[d].current_room = 0
                            /\ progress'[d].monsters_defeated = 0 ]_vars

\* an entry accepted a cooldown after an earlier run of the same dungeon
C3_Witness ==
  /\ last.handler = "process_dungeon_selection"
  /\ last.reply = "entered"
  /\ last.dungeon = "crypt"
  /\ now = 3600
  /\ progress["crypt"].last_attempt = now
  /\ progress["crypt"].current_room = 0
  /\ progress["crypt"].hp_remaining < NewPlayer.health

\* C4: an entry attempted while now < last_attempt + cooldown is rejected and
\* leaves last_attempt, the player and the run as they were; last_attempt
\* changes only with an accepted entry, so none is accepted before
\* last_attempt + cooldown
C4_CooldownRejects ==
  [][ \A d \in DungeonIds :
        /\ (/\ Handled("process_dungeon_selection", d)
            /\ progress[d].last_attempt # None
            /\ now < progress[d].last_attempt + Dungeons[d].cooldown * 3600)
           => /\ last'.reply = "cooldown"
              /\ progress'[d] = progress[d]
              /\ player' = player
        /\ progress'[d].last_attempt # progress[d].last_attempt
           => /\ Handled("process_dungeon_selection", d)
              /\ last'.reply = "entered"
              /\ progress'[d].last_attempt = now ]_vars

\* an entry was refused for the cooldown of a run entered before
C4_Witness ==
  /\ last.handler = "process_dungeon_selection"
  /\ last.reply = "cooldown"
  /\ last.dungeon \in DungeonIds
  /\ progress[last.dungeon].last_attempt # None
  /\ now < progress[last.dungeon].last_attempt + 3600

\* C5: an entry attempted with energy < energy_cost is rejected, and the
\* energy, last_attempt and the run are as they were
C5_NoEnergyRejects ==
  [][ \A d \in DungeonIds :
        (Handled("process_dungeon_selection", d)
         /\ player.energy < Dungeons[d].energy_cost)
        => /\ last'.reply # "entered"
           /\ player' = player
           /\ progress' = progress
           /\ inventory' = inventory ]_vars

\* an entry was refused for the energy alone: no cooldown was running
C5_Witness ==
  /\ last.handler = "process_dungeon_selection"
  /\ last.reply = "no_energy"
  /\ last.dungeon \in DungeonIds
  /\ player.energy < Dungeons[last.dungeon].energy_cost
  /\ \/ progress[last.dungeon].last_attempt = None
     \/ now >= progress[last.dungeon].last_attempt + 3600

\* C6: the room index of every run is at least 0 and at most the number of
\* rooms of its dungeon
C6_RoomIndexInRange ==
  \A d \in DungeonIds :
    /\ 0 <= progress[d].current_room
    /\ progress[d].current_room <= Len(Dungeons[d].monster_groups)

\* a run stands behind the last room of its dungeon
C6_Witness ==
  \E d \in DungeonIds :
    /\ progress[d].active
    /\ progress[d].current_room = Len(Dungeons[d].monster_groups)
    /\ progress[d].monsters_defeated > 0

\* C7: a room request on a run answers "expired" exactly when the time since
\* start_time is above completion_time (minutes); it then resolves no fight
\* and leaves the room index, the defeated-monster counter and the health
C7_ExpiredExactlyWhenLate ==
  [][ \A d \in DungeonIds :
        (Handled("process_dungeon_room", d) /\ progress[d].exists /\ progress[d].active)
        => /\ (last'.reply = "expired")
              <=> (now - progress[d].start_time > Dungeons[d].completion_time * 60)
           /\ last'.reply = "expired"
              => /\ last'.fights = << >>
                 /\ progress'[d] = progress[d]
                 /\ player' = player ]_vars

\* a room request was answered with "expired"
C7_Witness ==
  /\ last.handler = "process_dungeon_room"
  /\ last.reply = "expired"
  /\ last.dungeon \in DungeonIds
  /\ now - progress[last.dungeon].start_time > Dungeons[last.dungeon].completion_time * 60

\* C8: once a fight of a run was lost, no later room request on that run
\* resolves a fight or changes its progress
C8_FailedIsTerminal ==
  [][ \A d \in DungeonIds :
        (lost[d] /\ Handled("process_dungeon_room", d))
        => /\ last'.fights = << >>
           /\ progress'[d] = progress[d] ]_vars

\* C9: in a dungeon with a boss, a boss won in the request that clears the
\* last room settles the rewards once and raises completed_times by 1
C9_BossVictoryCompletes ==
  [][ \A d \in DungeonIds :
        (/\ Handled("process_dungeon_room", d)
         /\ Dungeons[d].boss_id # ""
         /\ Len(last'.fights) = Len(CurrentRoom(d)) + 1
         /\ last'.fights[Len(last'.fights)].victory)
        => /\ last'.settled = 1
           /\ progress'[d].completed_times = progress[d].completed_times + 1 ]_vars

\* C10: in a dungeon without a boss, clearing the last room settles the
\* rewards: the player gets experience and batons, and the completion is
\* recorded
C10_NoBossClearCompletes ==
  [][ \A d \in DungeonIds :
        (/\ Handled("process_dungeon_room", d)
         /\ Dungeons[d].boss_id = ""
         /\ last'.fights # << >>
         /\ progress[d].current_room + 1 = Len(Dungeons[d].monster_groups)
         /\ Len(last'.fights) = Len(CurrentRoom(d))
         /\ \A i \in 1 .. Len(last'.fights) : last'.fights[i].victory)
        => /\ last'.settled = 1
           /\ player'.experience > player.experience
           /\ player'.batons > player.batons
           /\ progress'[d].completed_times = progress[d].completed_times + 1 ]_vars

\* C11: a boss defeat ends the run as failed: the request is answered as a
\* failure and raises nothing, no rewards are settled, and the experience,
\* the batons, the inventory, completed_times and best_time are unchanged
C11_BossDefeatFails ==
  [][ \A d \in DungeonIds :
        (/\ Handled("process_dungeon_room", d)
         /\ Dungeons[d].boss_id # ""
         /\ Len(last'.fights) = Len(CurrentRoom(d)) + 1
         /\ ~last'.fights[Len(last'.fights)].victory)
        => /\ last'.raised = ""
           /\ last'.reply # ""
           /\ last'.settled = 0
           /\ player'.experience = player.experience
           /\ player'.batons = player.batons
           /\ inventory' = inventory
           /\ progress'[d].completed_times = progress[d].completed_times
           /\ progress'[d].best_time = progress[d].best_time ]_vars

C13_LeaveEndsRun ==
  [][ Handled("process_dungeon_selection", "leave")
      => /\ \A d \in DungeonIds : ~progress'[d].active
         /\ player' = player
         /\ inventory' = inventory ]_vars

\* C14: a pair has at most one progress row, and with it at most one active
\* run: an entry adds a row only if the pair has none
C14_OneRecordPerPair ==
  \A d \in DungeonIds :
    /\ progress[d].records <= 1
    /\ progress[d].exists <=> progress[d].records = 1
    /\ progress[d].active => progress[d].records = 1

\* the second entry into a dungeon, a cooldown after the first
C14_Witness ==
  /\ last.handler = "process_dungeon_selection"
  /\ last.reply = "entered"
  /\ last.dungeon = "keep"
  /\ player.energy = NewPlayer.energy - 2 * Dungeons["keep"].energy_cost
  /\ progress["keep"].records = 1
  /\ progress["keep"].last_attempt = CooldownSeconds("keep")

\* C15: a room request for a pair without a progress row, or without an
\* active run, is refused: no fight is resolved, and the player, the inventory
\* and the progress rows are as before
C15_NoRunRejects ==
  [][ \A d \in DungeonIds :
        (Handled("process_dungeon_room", d)
         /\ (progress[d].records = 0 \/ ~progress[d].active))
        => /\ last'.reply = "no_progress"
           /\ last'.fights = << >>
           /\ player' = player
           /\ inventory' = inventory
           /\ progress' = progress ]_vars

\* a room request was refused for a dungeon the player never entered
C15_Witness ==
  /\ last.handler = "process_dungeon_room"
  /\ last.reply = "no_progress"
  /\ last.dungeon \in DungeonIds
  /\ progress[last.dungeon].records = 0
  /\ fsm = "main_menu"

\* C16: every call of battle_calculation returns; a pass through its loop
\* starts only with both sides above 0 and fewer than 20 rounds, so the loop
\* is left as soon as a side is at 0 or below, and the rounds returned are
\* between 0 and 20
C16_BattleTerminates ==
  /\ [](call.s.rounds >= 0 /\ call.s.rounds <= 20)
  /\ [][ call'.s # call.s
         => /\ call.s.player_hp > 0
            /\ call.s.monster_hp > 0
            /\ call.s.rounds < 20
            /\ call'.s.rounds = call.s.rounds + 1 ]_vars
  /\ []((call.fn = "battle_calculation" /\ call.pc = "returned")
        => /\ call.result.rounds = call.s.rounds
           /\ \/ call.s.player_hp <= 0
              \/ call.s.monster_hp <= 0
              \/ call.s.rounds = 20)
  /\ <>(call.pc = "returned")

\* a battle returned on the round limit, both sides above 0
C16_Witness ==
  /\ call.fn = "battle_calculation"
  /\ call.pc = "returned"
  /\ call.result.rounds = 20
  /\ call.s.player_hp > 0
  /\ call.s.monster_hp > 0

\* C17: every hit is at least 1, however large the defense: a pass through
\* the loop of battle_calculation lowers the monster's health by 1 or more,
\* never raises the player's health, and lowers it by 1 or more when the
\* monster strikes and is not dodged; the same holds of both sides of a pass
\* through the loop of process_pvp_attack for every hit that is not dodged
C17_HitAtLeastOne ==
  [][ /\ (call.fn = "battle_calculation" /\ call'.s # call.s)
         => /\ call'.s.monster_hp <= call.s.monster_hp - 1
            /\ call'.s.player_hp <= call.s.player_hp
            /\ (call'.s.monster_hp > 0 /\ ~call'.dodge)
               => call'.s.player_hp <= call.s.player_hp - 1
      /\ (call.fn = "process_pvp_attack" /\ call'.s # call.s)
         => /\ call'.s.monster_hp <= call.s.monster_hp
            /\ ~call'.opponent_dodge => call'.s.monster_hp <= call.s.monster_hp - 1
            /\ call'.s.player_hp <= call.s.player_hp
            /\ (call'.s.monster_hp > 0 /\ ~call'.dodge)
               => call'.s.player_hp <= call.s.player_hp - 1 ]_vars

\* both sides have hit for 1 against a defense above the damage
C17_Witness ==
  /\ call.fn = "battle_calculation"
  /\ call.s.rounds = 1
  /\ call.stats.damage < call.monster.defense \div 2
  /\ call.monster.damage < call.stats.defense \div 20
  /\ call.s.monster_hp = call.monster.health - 1
  /\ call.s.player_hp = call.stats.health - 1

\* C18: a dodged attack takes no health: in a pass of battle_calculation in
\* which the player's dodge draw succeeds the player's health stays as it
\* was, and in a pass of process_pvp_attack the same holds of either side
C18_DodgeTakesNothing ==
  [][ /\ (call.fn = "battle_calculation" /\ call'.s # call.s /\ call'.dodge)
         => call'.s.player_hp = call.s.player_hp
      /\ (call.fn = "process_pvp_attack" /\ call'.s # call.s)
         => /\ call'.opponent_dodge => call'.s.monster_hp = call.s.monster_hp
            /\ call'.dodge => call'.s.player_hp = call.s.player_hp ]_vars

\* the monster outlived the player's hit and its strike was dodged
C18_Witness ==
  /\ call.fn = "battle_calculation"
  /\ call.s.rounds = 1
  /\ call.dodge
  /\ call.s.monster_hp > 0
  /\ call.monster.damage > call.stats.defense \div 20
  /\ call.s.player_hp = call.stats.health

\* C19: both sides of a pass of battle_calculation follow the same rule:
\* among the outcomes of a pass, over all its draws, there is one in which the
\* monster dodged the player's hit and one in which the monster's strike was
\* doubled by a critical hit
C19_SymmetricRound ==
  (call.fn = "battle_calculation" /\ call.pc = "while" /\ BattleRuns(call.s))
  => LET outcomes == {BattleRound(call.stats, call.monster, call.s, crit, dodge) :
                        crit \in BOOLEAN, dodge \in BOOLEAN}
         strike   == Max(1, call.monster.damage - (call.stats.defense \div 20))
     IN /\ \E o \in outcomes : o.monster_hp = call.s.monster_hp
        /\ \E o \in outcomes : call.s.player_hp - o.player_hp = 2 * strike

ScenarioReturned ==
  /\ call.fn = "battle_calculation"
  /\ call.pc = "returned"
  /\ call.stats = get_total_stats(NewPlayer, 0)
  /\ call.monster = Dummy
  /\ ~call.lucky

\* C21 as stated: a level-1 player with the default attributes against a
\* monster with health 100, defense 0 and damage 10, every draw failing, wins
\* in round 5 and has lost 10 health in each of 4 monster turns:
\* remaining_hp = max health - 40
C21_ScenarioLosesForty ==
  ScenarioReturned
  => /\ call.result.victory
     /\ call.result.rounds = 5
     /\ call.result.remaining_hp = call.stats.health - 40

\* C21 amended: in that scenario the player wins in round 5 and has lost
\* 3 health (10 less the floor of half its defense of 15) in each of 4 monster
\* turns: remaining_hp = max health - 12
C21_ScenarioLosesTwelve ==
  ScenarioReturned
  => /\ call.result.victory
     /\ call.result.rounds = 5
     /\ call.stats.damage = 20
     /\ call.stats.defense = 150
     /\ call.result.remaining_hp = call.stats.health - 4 * (10 - 7)

C21_Witness ==
  /\ ScenarioReturned
  /\ call.result.rounds = 5
  /\ call.s.monster_hp = 0

RECURSIVE Sum(_)
\* the sum of a sequence of numbers
Sum(numbers) == IF numbers = << >> THEN 0 ELSE Head(numbers) + Sum(Tail(numbers))

\* the stat block of the rows p when the buffs `active` apply: each stat from
\* its base, then the bonus of every equipped item that has a row, then the
\* bonus of every buff in `active` that names the stat; defense and the two
\* chances in tenths
ReferenceStats(p, active) ==
  LET worn(col) ==
        Sum([i \in 1 .. Len(p.equipment) |->
               IF p.equipment[i] \in DOMAIN Items THEN Items[p.equipment[i]][col] ELSE 0])
      buffed(stat) ==
        Sum([i \in 1 .. Len(active) |->
               IF stat \in DOMAIN active[i].stat_bonuses
               THEN active[i].stat_bonuses[stat] ELSE 0])
  IN [strength        |-> p.strength + worn("strength_bonus") + buffed("strength"),
      agility         |-> p.agility + worn("agility_bonus") + buffed("agility"),
      intelligence    |-> p.intelligence + worn("intelligence_bonus") + buffed("intelligence"),
      vitality        |-> p.vitality + worn("vitality_bonus") + buffed("vitality"),
      health          |-> p.max_health + worn("health_bonus") + buffed("health"),
      energy          |-> p.max_energy + worn("energy_bonus") + buffed("energy"),
      damage          |-> 2 * p.strength + worn("damage_bonus") + buffed("damage"),
      defense         |-> 15 * p.vitality + 10 * worn("defense_bonus") + 10 * buffed("defense"),
      critical_chance |-> 5 * p.agility + 10 * buffed("critical_chance"),
      dodge_chance    |-> 3 * p.agility + 10 * buffed("dodge_chance")]

\* a call of get_total_stats has returned
StatsReturned == call.fn = "get_total_stats" /\ call.pc = "returned"

\* C22: get_total_stats returns the reference aggregation: every stat starts
\* from its base (damage 2 x strength, defense 1.5 x vitality, critical_chance
\* 0.5 x agility, dodge_chance 0.3 x agility, health max_health, energy
\* max_energy), the bonuses of the equipped items are added, then the bonuses
\* of the buffs with now < expires_at by stat name; a stat name that is not in
\* the block adds no key and raises nothing
C22_TotalStatsIsReference ==
  StatsReturned
  => call.total_stats =
       ReferenceStats(call.self,
                      SelectSeq(call.self.buffs, LAMBDA buff : call.at < buff.expires_at))

C22_Witness ==
  /\ StatsReturned
  /\ Len(call.self.equipment) = 6
  /\ \E i \in 1 .. Len(call.self.buffs) :
       /\ call.at < call.self.buffs[i].expires_at
       /\ "luck" \in DOMAIN call.self.buffs[i].stat_bonuses
  /\ call.total_stats.damage # 2 * call.total_stats.strength

\* C23: a buff with expires_at <= now, the one that expires at this very
\* moment included, adds nothing: the block is the one of the same rows
\* without those buffs
C23_ExpiredBuffAddsNothing ==
  StatsReturned
  => LET p    == call.self
         live == {i \in 1 .. Len(p.buffs) : ~(p.buffs[i].expires_at <= call.at)}
     IN \A stat \in DOMAIN call.total_stats :
          call.total_stats[stat]
            = ReferenceStats(p, << >>)[stat]
              + (IF stat \in {"defense", "critical_chance", "dodge_chance"} THEN 10 ELSE 1)
                * Sum([i \in 1 .. Len(p.buffs) |->
                         IF i \in live /\ stat \in DOMAIN p.buffs[i].stat_bonuses
                         THEN p.buffs[i].stat_bonuses[stat] ELSE 0])

C23_Witness ==
  /\ StatsReturned
  /\ \E i \in 1 .. Len(call.self.buffs) :
       /\ call.self.buffs[i].expires_at = call.at
       /\ "strength" \in DOMAIN call.self.buffs[i].stat_bonuses
  /\ \E i \in 1 .. Len(call.self.buffs) : call.self.buffs[i].expires_at > call.at

PlayerGranted ==
  /\ call.pc \in {"idle", "returned"}
  /\ call'.fn = "Player.add_experience"
  /\ call'.grants = call.grants + 1

\* C25: add_experience never lowers the level, and when it returns
\* experience < floor(100 x level^1.5): no level-up is left pending, from any
\* state that grants have led to and for any amount >= 0; the same holds of a
\* companion's add_experience
C25_NoPendingLevelUp ==
  [][ /\ PlayerGranted
        => /\ player'.level >= player.level
           /\ (player'.experience + 1) * (player'.experience + 1)
                <= 10000 * player'.level * player'.level * player'.level
      /\ (call.pc \in {"idle", "returned"} /\ call'.fn = "PlayerPet.add_experience"
          /\ call'.grants = call.grants + 1)
        => /\ player_pets'[1].level >= player_pets[1].level
           /\ (player_pets'[1].experience + 1) * (player_pets'[1].experience + 1)
                <= 10000 * player_pets'[1].level * player_pets'[1].level
                   * player_pets'[1].level ]_vars

C25_Witness ==
  /\ call.fn = "Player.add_experience"
  /\ call.pc = "returned"
  /\ call.amount = 500
  /\ player.experience = 500
  /\ player.level = 3

\* C26: a call of add_experience that raises the level by k raises strength,
\* agility, intelligence and vitality by 2k each, max_health by 20k and
\* max_energy by 10k, and returns true exactly when k >= 1
C26_BonusesPerLevel ==
  [][ PlayerGranted
      => LET k == player'.level - player.level
         IN /\ k >= 0
            /\ player'.strength = player.strength + 2 * k
            /\ player'.agility = player.agility + 2 * k
            /\ player'.intelligence = player.intelligence + 2 * k
            /\ player'.vitality = player.vitality + 2 * k
            /\ player'.max_health = player.max_health + 20 * k
            /\ player'.max_energy = player.max_energy + 10 * k
            /\ call'.level_up = (k >= 1) ]_vars

C26_Witness ==
  /\ call.fn = "Player.add_experience"
  /\ call.pc = "returned"
  /\ call.grants = 1
  /\ call.level_up
  /\ player.level = 3
  /\ player.strength = 14
  /\ player.max_health = 140

\* C27: for a player whose experience is below the threshold of its level, a
\* grant of exactly that threshold raises the level by exactly 1
C27_ThresholdGrantOneLevel ==
  [][ (/\ PlayerGranted
       /\ call'.amount * call'.amount
            <= 10000 * player.level * player.level * player.level
       /\ 10000 * player.level * player.level * player.level
            < (call'.amount + 1) * (call'.amount + 1)
       /\ player.experience < call'.amount)
      => player'.level = player.level + 1 ]_vars

\* C28: in the settlement of a kill every entry of the drop table is a trial
\* of its own: an entry with probability 1.0 whose item exists is always in
\* the rewards and one more in the inventory, an entry with probability 0.0
\* never is
C28_SureDropsAndNoDrops ==
  [][ (call'.fn = "process_battle_rewards" /\ call'.kills = call.kills + 1)
      => \A i \in DOMAIN call'.monster.drop_table \cap DOMAIN Items :
           /\ call'.monster.drop_table[i] = 100
              => /\ i \in call'.rewards.dropped_items
                 /\ inventory'[i] = inventory[i] + 1
           /\ call'.monster.drop_table[i] = 0
              => /\ i \notin call'.rewards.dropped_items
                 /\ inventory'[i] = inventory[i] ]_vars

\* two entries that may or may not drop have both dropped in one kill, after
\* a kill in which two sure entries dropped
C28_Witness ==
  /\ call.fn = "process_battle_rewards"
  /\ call.pc = "returned"
  /\ call.kills = 2
  /\ call.monster.drop_table = [potion |-> 50, sword |-> 50]
  /\ call.rewards.dropped_items = {"potion", "sword"}
  /\ inventory["potion"] = 2
  /\ inventory["sword"] = 2

\* C29: when the settlement of a kill awards experience E to a player with
\* an active companion, the companion gains floor(E / 2) experience through
\* its own add_experience and 10 happiness up to 100; with no active companion
\* no player_pets row changes
C29_CompanionSharesKill ==
  [][ (last'.handler = "process_battle_action" /\ last'.reply = "victory")
      => LET E      == Monsters[monster_id].experience_reward
             active == {i \in 1 .. Len(player_pets) : player_pets[i].is_active}
         IN /\ active = {} => player_pets' = player_pets
            /\ \A i \in active :
                 (\A j \in active : i <= j)
                 => /\ player_pets'[i].experience = player_pets[i].experience + E \div 2
                    /\ player_pets'[i].level >= player_pets[i].level
                    /\ player_pets'[i].happiness
                         = IF player_pets[i].happiness + 10 < 100
                           THEN player_pets[i].happiness + 10 ELSE 100 ]_vars

\* C30: whatever starter choices, purchases and toggles were made, at most
\* one player_pets row of the player has is_active = true
C30_OneActivePet ==
  Cardinality({i \in 1 .. Len(player_pets) : player_pets[i].is_active}) <= 1

\* the rows the care touches: those of the table and those of the session
\* process_dungeon_rewards worked on
CaredRows ==
  {player_pets[i] : i \in 1 .. Len(player_pets)} \cup
  (IF call.fn = "process_dungeon_rewards"
   THEN {call.player_pets[i] : i \in 1 .. Len(call.player_pets)} ELSE {})

\* C31: after any sequence of feedings, status updates and dungeon reward
\* settlements every companion's happiness and hunger lie in 0 .. 100
C31_CareInRange ==
  \A row \in CaredRows :
     /\ 0 <= row.happiness /\ row.happiness <= 100
     /\ 0 <= row.hunger /\ row.hunger <= 100

\* a companion was starved to hunger 100 and happiness 0, then fed, and a
\* settlement raised the happiness of the session's row further
C31_Witness ==
  /\ call.fn = "process_dungeon_rewards"
  /\ last.handler = "feed_pet" /\ last.committed
  /\ \E i \in 1 .. Len(player_pets) :
       player_pets[i].hunger = 50 /\ player_pets[i].happiness = 20

\* the abilities whose text the pass appended to battle_log
UsedIn(pass) == {a \in DOMAIN PetAbilities : \E k \in 1 .. Len(pass) : pass[k] = <<a, 0>>}

\* C32: in a pass of dungeon_battle the companion uses only a combat ability
\* that its evolution level unlocks and whose counter is at 0; at the end of the
\* pass the used ability's counter is its cooldown c less 1 and every other
\* counter is 1 lower, never below 0; an ability used in pass r is not used
\* again before pass r + c
C32_AbilityCooldowns ==
  [][(/\ call.fn = "dungeon_battle"
      /\ call.pc = "while"
      /\ call'.pc = "while"
      /\ call'.st.s.rounds = call.st.s.rounds + 1)
     => LET used == UsedIn(call'.st.pass)
        IN /\ \A a \in used :
                /\ call.pet # NoCompanion
                /\ a \in Companions[call.pet].abilities
                /\ PetAbilities[a].type = "combat"
                /\ PetAbilities[a].required_evolution <= Companions[call.pet].evolution_level
                /\ a \in DOMAIN call.st.cooldowns => call.st.cooldowns[a] <= 0
                /\ call'.st.cooldowns[a] = Max(0, PetAbilities[a].cooldown - 1)
                /\ a \in DOMAIN call.used_at
                   => call.st.s.rounds >= call.used_at[a] + PetAbilities[a].cooldown
           /\ \A a \in DOMAIN call.st.cooldowns \ used :
                call'.st.cooldowns[a] = Max(0, call.st.cooldowns[a] - 1)]_vars

\* the wolf bit in pass 0, licked in pass 1 and bit again in pass 2, the first
\* pass its cooldown of 2 allows
C32_Witness ==
  /\ call.fn = "dungeon_battle"
  /\ call.pet = "wolf"
  /\ call.st.s.rounds = 3
  /\ call.used_at = [bite |-> 2, lick |-> 1]
  /\ call.st.cooldowns = [bite |-> 1, lick |-> 1]

\* C33: a pass goes attacker, companion, defender, and a dead defender does
\* not act: the log of a pass of dungeon_battle starts with the player's hit,
\* an ability follows it only if the hit left the monster above 0, the
\* monster's attack comes last and only if the monster is above 0 after both;
\* in the pass in which the monster falls to 0 or below, in dungeon_battle and
\* in battle_calculation, the player's health is not reduced
C33_RoundOrder ==
  [][/\ (/\ call.fn = "dungeon_battle"
         /\ call.pc = "while"
         /\ call'.pc = "while"
         /\ call'.st.s.rounds = call.st.s.rounds + 1)
        => LET pass == call'.st.pass
               n    == Len(pass)
           IN /\ n >= 1
              /\ pass[1][1] \in {"hit", "crit"}
              /\ \A k \in 1 .. n :
                   /\ pass[k][1] \in DOMAIN PetAbilities
                      => k = 2 /\ call.st.s.monster_hp - pass[1][2] > 0
                   /\ pass[k][1] \in {"strike", "dodge"}
                      => k = n /\ k > 1 /\ call'.st.s.monster_hp > 0
              /\ call'.st.s.monster_hp > 0 => pass[n][1] \in {"strike", "dodge"}
              /\ call'.st.s.monster_hp <= 0 => call'.st.s.player_hp >= call.st.s.player_hp
     /\ (/\ call.fn = "battle_calculation"
         /\ call.pc = "while"
         /\ call'.pc = "while"
         /\ call'.s.rounds = call.s.rounds + 1)
        => (call'.s.monster_hp <= 0 => call'.s.player_hp = call.s.player_hp)]_vars

\* the player's hit left the monster above 0, the companion's bite brought it
\* down, and the monster did not answer
C33_Witness ==
  /\ call.fn = "dungeon_battle"
  /\ call.st.s.rounds >= 2
  /\ call.st.s.monster_hp <= 0
  /\ Len(call.st.pass) = 2
  /\ call.st.pass[2] = <<"bite", 0>>
  /\ call.st.s.player_hp < call.st.player_max_hp

\* the health of the two sides of the loop under way
LoopState == IF call.fn = "dungeon_battle" THEN call.st.s ELSE call.s

\* C36: battle_calculation, the loop of process_pvp_attack and dungeon_battle
\* never reach a state, and so never end, with both sides at health <= 0
C36_NeverBothDown ==
  call.fn \in {"battle_calculation", "process_pvp_attack", "dungeon_battle"}
  => ~(LoopState.player_hp <= 0 /\ LoopState.monster_hp <= 0)

\* battle_calculation returned a defeat after several passes: the monster
\* brought the player to 0 or below and kept some health
C36_Witness ==
  /\ call.fn = "battle_calculation"
  /\ call.pc = "returned"
  /\ call.s.rounds >= 2
  /\ call.s.player_hp <= 0
  /\ call.s.monster_hp > 0
  /\ call.s.monster_hp < call.monster.health

\* C40: for a player without an active companion, battle_calculation and
\* dungeon_battle called with the same stat block, monster and draws return
\* the same victory flag, remaining health, round count and log
C40_MonsterLoopsAgree ==
  (/\ call.fn = "twin"
   /\ \A which \in MonsterLoops : call.run[which].pc = "returned")
  => call.run["battle_calculation"].result = call.run["dungeon_battle"].result

\* both functions returned a victory after two passes in which the player
\* dodged the monster's attack
C40_Witness ==
  /\ call.fn = "twin"
  /\ \A which \in MonsterLoops :
       /\ call.run[which].pc = "returned"
       /\ call.run[which].result.victory
       /\ call.run[which].result.rounds = 2
       /\ call.run[which].result.battle_log[2] = <<"dodge", 0>>

\* C34: when create_item is rejected for energy or for a material, the
\* player's energy and crafting experience and every inventory quantity are
\* what they were
C34_RejectedCraftChangesNothing ==
  [][(/\ last'.handler = "create_item"
      /\ last'.reply \in {"no_energy", "no_materials"})
     => /\ player'.energy = player.energy
        /\ player'.crafting_experience = player.crafting_experience
        /\ inventory' = inventory]_vars

\* the blade was rejected for its second material after the session had
\* taken two potions off the first
C34_Witness ==
  /\ last.handler = "create_item"
  /\ last.reply = "no_materials"
  /\ last.recipe_id = "blade"
  /\ last.session.inventory["potion"] = 0
  /\ inventory["potion"] = 2
  /\ inventory["shield"] = 0

\* C39: a PvP battle leaves the sum of the two ratings as it was, gives one
\* of the two players one more win and the other one more loss, and so the
\* wins of the two together equal their losses
C39_PvpZeroSum ==
  [][(last'.handler = "process_pvp_attack" /\ last'.committed)
     => LET before == <<player, call.opponent>>
            after  == <<player', call'.opponent>>
        IN /\ after[1].pvp_rating + after[2].pvp_rating
              = before[1].pvp_rating + before[2].pvp_rating
           /\ \E i \in 1 .. 2 :
                /\ after[i].wins = before[i].wins + 1
                /\ after[i].losses = before[i].losses
                /\ after[3 - i].wins = before[3 - i].wins
                /\ after[3 - i].losses = before[3 - i].losses + 1
           /\ after[1].wins + after[2].wins = after[1].losses + after[2].losses]_vars

\* the user won twice against a player the first win had put 32 points below
C39_Witness ==
  /\ call.fn = "pvp_arena"
  /\ call.pc = "idle"
  /\ call.bouts = 2
  /\ player.wins = 2
  /\ player.pvp_rating = 1031
  /\ call.opponent.losses = 2
  /\ call.opponent.pvp_rating = 969

\* C37: whatever battles, flees and dungeon rooms were handled, the players
\* row holds a health from 0 to max_health
C37_HealthInRange ==
  0 <= player.health /\ player.health <= player.max_health

\* C38: whatever battles, flees, dungeon entries, creations, PvP attacks,
\* regenerations and level-ups were handled one at a time, the players row
\* holds an energy from 0 to max_energy, and a step that lowers the energy
\* lowers it by the full cost of the request (a flee by 5, not by what is left)
C38_EnergyInRange ==
  /\ [](0 <= player.energy /\ player.energy <= player.max_energy)
  /\ [][/\ (last'.handler = "process_battle_action" /\ last'.reply = "fled")
           => player'.energy = player.energy - FleeEnergyLoss
        /\ player'.energy < player.energy
           => player.energy - player'.energy
                \in {FleeEnergyLoss, BattleEnergyCost, 20}
                    \cup {Dungeons[d].energy_cost : d \in DungeonIds}]_vars

\* an attack took the last 10 points of energy
C38_Witness ==
  /\ last.handler = "process_battle_action"
  /\ last.reply \in {"victory", "defeat"}
  /\ player.energy = 0


============================================================================
